---------------------------- MODULE Spec2Model ----------------------------
(***************************************************************************)
(* Model of the Magical-Adventure service worker (v4, src/unnamed/part_001,*)
(* with the v2/v3 variants src/sw.js and src/unnamed/part_000 where they   *)
(* differ): the deferred-action drains (syncPhotoUploads, syncUserActions),*)
(* the fetch handler and the install / activate lifecycle.                 *)
(***************************************************************************)
EXTENDS Integers, Sequences, FiniteSets, TLC

(***************************************************************************)
(* Bounds of the model.                                                    *)
(***************************************************************************)
\* Number of entries the application enqueues per category in one behaviour.
MaxEntries == 3

\* Number of cache.put calls of the fetch handler that may be in flight.
MaxPendingPuts == 1

\* Number of FORCE_UPDATE messages handled in one behaviour.
MaxForceRuns == 2

\* Length of the longest list of content updates.
MaxUpdates == 3
MaxFrameEntries == 1

(***************************************************************************)
(* Deferred Action Queue: the two list categories.                         *)
(*   "upload" : IndexedDB object store 'pendingUploads'                    *)
(*   "action" : localStorage item 'pending_user_actions'                   *)
(* A queue entry is identified by its id; ids are handed out in increasing *)
(* order, so the order of a collection is the enqueue order.               *)
(***************************************************************************)
Cats == {"upload", "action"}

Ids == 1..MaxEntries

VARIABLES
    store,         \* store[c]: the Durable Store collection of category c, a sequence of ids
    nextId,        \* nextId[c]: the id the application gives to its next entry
    pc,            \* pc[c]: position of the drain of category c
    list,          \* list[c]: pendingUploads / pendingActions read at the drain's start
    idx,           \* idx[c]: index into list[c] of the entry of the current iteration
    successCount,  \* successCount[c]: the drain's local success counter
    snap,          \* snap[c]: what removePendingAction read before it writes back
    submitted,     \* submitted[c]: the submit calls of the current drain, <<id, ok>> each
    removeCalls,   \* removeCalls[c]: ids passed to removePending* in the current drain
    notes,         \* notes[c]: notifyClients calls of the current drain
    caught,        \* caught[c]: ids whose iteration ended in the per-entry catch
    delivered,     \* delivered[c]: ids whose submit has succeeded at least once
    failed         \* failed[c]: ids whose latest submit failed

drainVars == <<store, nextId, pc, list, idx, successCount, snap, submitted,
               removeCalls, notes, caught, delivered, failed>>

(***************************************************************************)
(* Resource Cache, Fetch Interceptor and Lifecycle Controller.             *)
(***************************************************************************)
VARIABLES
    cacheNames,    \* caches.keys(): the names of the existing caches, in creation order
    entries,       \* entries[name]: the cache `name`, a function from the URLs it holds to responses
    lpc,           \* lifecycle position of the v4 worker
    toDelete,      \* cache names the activate handler has still to delete
    deleted,       \* cache names the activate handler has deleted
    populated,     \* outcome of the install-time cache.addAll: "none", "ok", "failed"
    skipWaiting,   \* self.skipWaiting() has been called
    claimed,       \* self.clients.claim() has been called
    fpc,           \* position of the fetch handler
    req,           \* the request of the current fetch event
    fres,          \* what the fetch handler answered
    lookedUp,      \* caches.match has been called for the current fetch event
    fhit,          \* what that caches.match resolved with
    netCalled,     \* fetch(event.request) has been called for the current fetch event
    putIssued,     \* a cache.put has been issued for the current fetch event
    pendingPuts    \* caches.open(CACHE_NAME).then(cache.put) calls that have not landed

cacheVars == <<cacheNames, entries, lpc, toDelete, deleted, populated, skipWaiting,
               claimed, fpc, req, fres, lookedUp, fhit, netCalled, putIssued,
               pendingPuts>>

(***************************************************************************)
(* Maintenance handlers: forceUpdate and periodicContentUpdate.            *)
(***************************************************************************)
VARIABLES
    upc,           \* position of forceUpdate
    fuToDelete,    \* cache names forceUpdate has still to delete
    fuBefore,      \* the caches as the running forceUpdate found them, and whether no
                   \* put of a fetch handler was in flight then
    fuRuns,        \* one record per forceUpdate that got past its addAll
    popLog,        \* the latest cache.addAll call: who called, what failed, what it did
    ppc,           \* position of periodicContentUpdate
    pIdx,          \* index into criticalUrls of the URL being refreshed
    pResp,         \* the response fetch(url) resolved with, to be put
    pLog,          \* outcome of each URL of the current periodic run, in order
    pnotes,        \* messages the current periodic run handed to notifyClients
    mnotes         \* messages forceUpdate handed to notifyClients, in order

maintVars == <<upc, fuToDelete, fuBefore, fuRuns, popLog, ppc, pIdx, pResp, pLog,
               pnotes, mnotes>>

(***************************************************************************)
(* The previous worker (v3, src/unnamed/part_000), which controls the      *)
(* pages until the v4 worker activates, and whose handlers that are        *)
(* already running then run on.                                            *)
(***************************************************************************)
VARIABLES
    opc,           \* position of the previous worker's fetch handler
    oreq,          \* the request it is handling
    ores,          \* what it answered
    oseen,         \* the cache names that existed when its caches.match ran
    oldPuts        \* its caches.open(CACHE_NAME).then(cache.put) calls that have not landed

oldVars == <<opc, oreq, ores, oseen, oldPuts>>

(***************************************************************************)
(* syncMagicalData (aggregate data).                                       *)
(***************************************************************************)
VARIABLES
    magic,         \* the 'selected_wand' item the application keeps in localStorage
    apc,           \* position of the running handler
    atag,          \* its sync tag: "magical-data-sync" once it has run
    aver,          \* the script whose handler runs: "v3" (part_000) or "v4" (part_001)
    asnap,         \* what getMagicalData returned
    asubmits,      \* the snapshots the submit capability accepted, in order
    anotes,        \* messages the handler handed to notifyClients, in order
    aresult        \* how the promise given to waitUntil settled: "none", "fulfilled", "rejected"

aggVars == <<magic, apc, atag, aver, asnap, asubmits, anotes, aresult>>

VARIABLES
    cpc,            \* position of the running syncContentUpdates
    contentUpdates, \* what getContentUpdates returned
    cidx,           \* index of the update the loop is at
    cattempts,      \* <<update, ok>> for each applyContentUpdate call, in order
    cnotes,         \* messages the handler handed to notifyClients, in order
    cresult         \* how the promise given to waitUntil settled

contentVars == <<cpc, contentUpdates, cidx, cattempts, cnotes, cresult>>

VARIABLE
    unknownTag     \* the tag of the last sync event the listener logged as unknown

\* The drains that have no list in the Durable Store, and the listener's log.
syncVars == <<aggVars, contentVars, unknownTag>>

vars == <<drainVars, cacheVars, maintVars, oldVars, syncVars>>

\* Parts of cacheVars: the lifecycle and the fetch handler.
lifeVars == <<lpc, toDelete, deleted, populated, skipWaiting, claimed>>

fetchVars == <<fpc, req, fres, lookedUp, fhit, netCalled, putIssued, pendingPuts>>

(***************************************************************************)
(* Sequence helpers.                                                       *)
(***************************************************************************)
Range(s) == {s[i] : i \in DOMAIN s}

\* Array.prototype.filter(x => x !== id)
RECURSIVE Without(_, _)
Without(s, id) ==
    IF s = <<>> THEN <<>>
    ELSE IF Head(s) = id THEN Without(Tail(s), id)
         ELSE <<Head(s)>> \o Without(Tail(s), id)

(***************************************************************************)
(* Durable Store reads.  An access that fails is answered with the empty   *)
(* list (resolve([]) / return []).                                         *)
(***************************************************************************)
\* getPendingUploads: indexedDB.open + getAll, [] on any error
getPendingUploads(up, accessOk) == IF accessOk THEN up ELSE <<>>

\* getPendingUserActions: localStorage.getItem + JSON.parse, [] on any error
getPendingUserActions(acts, accessOk) == IF accessOk THEN acts ELSE <<>>

getPending(c, coll, accessOk) ==
    IF c = "upload" THEN getPendingUploads(coll, accessOk)
    ELSE getPendingUserActions(coll, accessOk)

(***************************************************************************)
(* Notifications (messages handed to notifyClients).                       *)
(***************************************************************************)
ItemSuccess(c, id) ==
    [type |-> IF c = "upload" THEN "PHOTO_SYNC_SUCCESS" ELSE "ACTION_SYNC_SUCCESS",
     data |-> id]

SyncComplete(n) == [type |-> "SYNC_COMPLETE", data |-> n]

(***************************************************************************)
(* Control flow of the for-loop: where the drain goes after the iteration  *)
(* of list[c][idx[c]] ended (normally or in the per-entry catch).          *)
(***************************************************************************)
\* Variant of NextIteration: after the last entry the handler waits on a
\* promise that never settles.
NextIterationHangs(c) ==
    IF idx[c] < Len(list[c])
    THEN /\ idx' = [idx EXCEPT ![c] = idx[c] + 1]
         /\ pc' = [pc EXCEPT ![c] = "submit"]
    ELSE /\ idx' = idx
         /\ pc' = [pc EXCEPT ![c] = "pending"]

NextIteration(c) ==
    IF idx[c] < Len(list[c])
    THEN /\ idx' = [idx EXCEPT ![c] = idx[c] + 1]
         /\ pc' = [pc EXCEPT ![c] = "submit"]
    ELSE /\ idx' = idx
         /\ pc' = [pc EXCEPT ![c] = "complete"]

\* Variant of EntryCatch: the failure leaves the loop (one try around the loop).
EntryCatchAborts(c) ==
    /\ caught' = [caught EXCEPT ![c] = caught[c] \cup {list[c][idx[c]]}]
    /\ idx' = idx
    /\ pc' = [pc EXCEPT ![c] = "done"]

\* The per-entry catch block: log, keep the entry, go on with the next entry.
EntryCatch(c) ==
    /\ caught' = [caught EXCEPT ![c] = caught[c] \cup {list[c][idx[c]]}]
    /\ NextIteration(c)

(***************************************************************************)
(* The application enqueues an entry (outside the service worker).         *)
(***************************************************************************)
Enqueue(c) ==
    /\ nextId[c] <= MaxEntries
    /\ store' = [store EXCEPT ![c] = Append(store[c], nextId[c])]
    /\ nextId' = [nextId EXCEPT ![c] = nextId[c] + 1]
    /\ UNCHANGED <<pc, list, idx, successCount, snap, submitted, removeCalls,
                   notes, caught, delivered, failed>>
    /\ UNCHANGED <<cacheVars, maintVars, oldVars, syncVars>>

\* Variant of StartDrain: no early return, and the completion notification
\* is sent whatever the count.
StartDrainNoEarlyReturn(c) ==
    /\ pc[c] \in {"idle", "done"}
    /\ \E accessOk \in BOOLEAN :
         LET pending == getPending(c, store[c], accessOk) IN
         /\ list' = [list EXCEPT ![c] = pending]
         /\ IF Len(pending) = 0
            THEN /\ pc' = [pc EXCEPT ![c] = "done"]
                 /\ idx' = [idx EXCEPT ![c] = 0]
                 /\ notes' = [notes EXCEPT ![c] = <<SyncComplete(0)>>]
            ELSE /\ pc' = [pc EXCEPT ![c] = "submit"]
                 /\ idx' = [idx EXCEPT ![c] = 1]
                 /\ notes' = [notes EXCEPT ![c] = <<>>]
    /\ successCount' = [successCount EXCEPT ![c] = 0]
    /\ snap' = [snap EXCEPT ![c] = <<>>]
    /\ submitted' = [submitted EXCEPT ![c] = <<>>]
    /\ removeCalls' = [removeCalls EXCEPT ![c] = <<>>]
    /\ caught' = [caught EXCEPT ![c] = {}]
    /\ UNCHANGED <<store, nextId, delivered, failed>>
    /\ UNCHANGED <<cacheVars, maintVars, oldVars, syncVars>>

(***************************************************************************)
(* sync event -> syncPhotoUploads / syncUserActions: read the pending list;*)
(* return at once when it is empty.                                        *)
(***************************************************************************)
StartDrain(c) ==
    /\ pc[c] \in {"idle", "done"}
    /\ \E accessOk \in BOOLEAN :
         LET pending == getPending(c, store[c], accessOk) IN
         /\ list' = [list EXCEPT ![c] = pending]
         /\ IF Len(pending) = 0
            THEN /\ pc' = [pc EXCEPT ![c] = "done"]
                 /\ idx' = [idx EXCEPT ![c] = 0]
            ELSE /\ pc' = [pc EXCEPT ![c] = "submit"]
                 /\ idx' = [idx EXCEPT ![c] = 1]
    /\ successCount' = [successCount EXCEPT ![c] = 0]
    /\ snap' = [snap EXCEPT ![c] = <<>>]
    /\ submitted' = [submitted EXCEPT ![c] = <<>>]
    /\ removeCalls' = [removeCalls EXCEPT ![c] = <<>>]
    /\ notes' = [notes EXCEPT ![c] = <<>>]
    /\ caught' = [caught EXCEPT ![c] = {}]
    /\ UNCHANGED <<store, nextId, delivered, failed>>
    /\ UNCHANGED <<cacheVars, maintVars, oldVars, syncVars>>

\* Variant of Submit: the submit is not awaited, so its failure is not seen
\* and the removal follows in every case.
SubmitNotAwaited(c) ==
    /\ pc[c] = "submit"
    /\ \E ok \in BOOLEAN :
         LET id == list[c][idx[c]] IN
         /\ submitted' = [submitted EXCEPT ![c] = Append(submitted[c], <<id, ok>>)]
         /\ delivered' = [delivered EXCEPT ![c] = IF ok THEN delivered[c] \cup {id}
                                                  ELSE delivered[c]]
         /\ failed' = [failed EXCEPT ![c] = IF ok THEN failed[c] \ {id}
                                            ELSE failed[c] \cup {id}]
    /\ pc' = [pc EXCEPT ![c] = "remove"]
    /\ UNCHANGED <<store, nextId, list, idx, successCount, snap, removeCalls, notes,
                   caught>>
    /\ UNCHANGED <<cacheVars, maintVars, oldVars, syncVars>>

(***************************************************************************)
(* await uploadPhotoToServer(upload) / await syncActionToServer(action):   *)
(* the submit capability.  The bodies kept in the source are placeholders  *)
(* for the POST shown in their comments: they wait on a timer and read     *)
(* fields of the entry, so they throw on an entry that is not an object    *)
(* and resolve otherwise.  The awaited call is modelled by its two         *)
(* outcomes, resolve (ok) or throw, chosen per call.                       *)
(***************************************************************************)
Submit(c) ==
    /\ pc[c] = "submit"
    /\ \E ok \in BOOLEAN :
         LET id == list[c][idx[c]] IN
         /\ submitted' = [submitted EXCEPT ![c] = Append(submitted[c], <<id, ok>>)]
         /\ IF ok
            THEN /\ delivered' = [delivered EXCEPT ![c] = delivered[c] \cup {id}]
                 /\ failed' = [failed EXCEPT ![c] = failed[c] \ {id}]
                 /\ pc' = [pc EXCEPT ![c] = "remove"]
                 /\ UNCHANGED <<idx, caught>>
            ELSE /\ failed' = [failed EXCEPT ![c] = failed[c] \cup {id}]
                 /\ EntryCatch(c)
                 /\ UNCHANGED delivered
    /\ UNCHANGED <<store, nextId, list, successCount, snap, removeCalls, notes>>
    /\ UNCHANGED <<cacheVars, maintVars, oldVars, syncVars>>

(***************************************************************************)
(* await removePendingUpload(upload.id); successCount++                    *)
(* indexedDB.open: onsuccess -> store.delete(id), onerror -> log only.     *)
(* The promise resolves in both cases.                                     *)
(***************************************************************************)
removePendingUpload(up, id, accessOk) == IF accessOk THEN Without(up, id) ELSE up

RemoveUpload ==
    /\ pc["upload"] = "remove"
    /\ \E accessOk \in BOOLEAN :
         LET id == list["upload"][idx["upload"]] IN
         /\ store' = [store EXCEPT !["upload"] = removePendingUpload(store["upload"], id, accessOk)]
         /\ removeCalls' = [removeCalls EXCEPT !["upload"] = Append(removeCalls["upload"], id)]
    /\ successCount' = [successCount EXCEPT !["upload"] = successCount["upload"] + 1]
    /\ pc' = [pc EXCEPT !["upload"] = "notify"]
    /\ UNCHANGED <<nextId, list, idx, snap, submitted, notes, caught, delivered, failed>>
    /\ UNCHANGED <<cacheVars, maintVars, oldVars, syncVars>>

(***************************************************************************)
(* await removePendingAction(action.id), first half:                       *)
(*   const actions = await getPendingUserActions();                        *)
(***************************************************************************)
RemoveActionRead ==
    /\ pc["action"] = "remove"
    /\ \E accessOk \in BOOLEAN :
         snap' = [snap EXCEPT !["action"] = getPendingUserActions(store["action"], accessOk)]
    /\ removeCalls' = [removeCalls EXCEPT !["action"] =
                          Append(removeCalls["action"], list["action"][idx["action"]])]
    /\ pc' = [pc EXCEPT !["action"] = "removeWrite"]
    /\ UNCHANGED <<store, nextId, list, idx, successCount, submitted, notes,
                   caught, delivered, failed>>
    /\ UNCHANGED <<cacheVars, maintVars, oldVars, syncVars>>

(***************************************************************************)
(* removePendingAction, second half, after the await:                      *)
(*   filteredActions = actions.filter(a => a.id !== id);                   *)
(*   localStorage.setItem(..., JSON.stringify(filteredActions));           *)
(* setItem may throw; removePendingAction catches and logs.  successCount++*)
(***************************************************************************)
filteredActions(actions, id) == Without(actions, id)

\* Variant of RemoveActionWrite: the list is written after localStorage.clear(),
\* which removes the 'selected_wand' item as well.
RemoveActionWriteClears ==
    /\ pc["action"] = "removeWrite"
    /\ \E writeOk \in BOOLEAN :
         store' = [store EXCEPT !["action"] =
                      IF writeOk
                      THEN filteredActions(snap["action"], list["action"][idx["action"]])
                      ELSE store["action"]]
    /\ magic' = "null"
    /\ snap' = [snap EXCEPT !["action"] = <<>>]
    /\ successCount' = [successCount EXCEPT !["action"] = successCount["action"] + 1]
    /\ pc' = [pc EXCEPT !["action"] = "notify"]
    /\ UNCHANGED <<nextId, list, idx, submitted, removeCalls, notes, caught, delivered, failed>>
    /\ UNCHANGED <<cacheVars, maintVars, oldVars, contentVars, unknownTag>>
    /\ UNCHANGED <<apc, atag, aver, asnap, asubmits, anotes, aresult>>

RemoveActionWrite ==
    /\ pc["action"] = "removeWrite"
    /\ \E writeOk \in BOOLEAN :
         store' = [store EXCEPT !["action"] =
                      IF writeOk
                      THEN filteredActions(snap["action"], list["action"][idx["action"]])
                      ELSE store["action"]]
    /\ snap' = [snap EXCEPT !["action"] = <<>>]
    /\ successCount' = [successCount EXCEPT !["action"] = successCount["action"] + 1]
    /\ pc' = [pc EXCEPT !["action"] = "notify"]
    /\ UNCHANGED <<nextId, list, idx, submitted, removeCalls, notes, caught, delivered, failed>>
    /\ UNCHANGED <<cacheVars, maintVars, oldVars, syncVars>>

(***************************************************************************)
(* await notifyClients({type: ..._SYNC_SUCCESS, data: entry}).             *)
(* The call is recorded; it may throw (clients.matchAll / postMessage),    *)
(* which lands in the per-entry catch.                                     *)
(***************************************************************************)
NotifyItem(c) ==
    /\ pc[c] = "notify"
    /\ notes' = [notes EXCEPT ![c] = Append(notes[c], ItemSuccess(c, list[c][idx[c]]))]
    /\ \E ok \in BOOLEAN :
         IF ok
         THEN /\ NextIteration(c)
              /\ UNCHANGED caught
         ELSE EntryCatch(c)
    /\ UNCHANGED <<store, nextId, list, successCount, snap, submitted, removeCalls,
                   delivered, failed>>
    /\ UNCHANGED <<cacheVars, maintVars, oldVars, syncVars>>

\* Variant of Complete: the completion notification is sent whatever the count.
CompleteAlways(c) ==
    /\ pc[c] = "complete"
    /\ notes' = [notes EXCEPT ![c] = Append(notes[c], SyncComplete(successCount[c]))]
    /\ pc' = [pc EXCEPT ![c] = "done"]
    /\ UNCHANGED <<store, nextId, list, idx, successCount, snap, submitted,
                   removeCalls, caught, delivered, failed>>
    /\ UNCHANGED <<cacheVars, maintVars, oldVars, syncVars>>

(***************************************************************************)
(* After the loop: if (successCount > 0) notifyClients(SYNC_COMPLETE).     *)
(* A throw of this call lands in the outer catch, which logs.              *)
(***************************************************************************)
Complete(c) ==
    /\ pc[c] = "complete"
    /\ notes' = [notes EXCEPT ![c] =
                    IF successCount[c] > 0
                    THEN Append(notes[c], SyncComplete(successCount[c]))
                    ELSE notes[c]]
    /\ pc' = [pc EXCEPT ![c] = "done"]
    /\ UNCHANGED <<store, nextId, list, idx, successCount, snap, submitted,
                   removeCalls, caught, delivered, failed>>
    /\ UNCHANGED <<cacheVars, maintVars, oldVars, syncVars>>

(***************************************************************************)
(* Resource Cache.                                                         *)
(***************************************************************************)
CACHE_NAME == "magical-adventure-v4"

\* Caches left by the earlier versions of the worker (src/sw.js, part_000).
OldNames == {"magical-adventure-v2", "magical-adventure-v3"}

Names == OldNames \cup {CACHE_NAME}

\* URLs.  The relative ones are resolved against the worker's https origin.
U_ROOT == "./"
U_INDEX == "./index.html"
U_MANIFEST == "./manifest.json"
U_FONT == "https://fonts.googleapis.com/css2"
U_PHOTO == "./photo.jpg"
U_BANNER == "http://example.org/banner.png"
U_API == "./api/photos"
U_EXT == "chrome-extension://abc/inject.js"
U_DATA == "data:image/png;base64"

Urls == {U_ROOT, U_INDEX, U_MANIFEST, U_FONT, U_PHOTO, U_BANNER, U_API, U_EXT, U_DATA}

\* urlsToCache: the page, its manifest, and the cross-origin font stylesheet
\* (the media and icon files behave like the manifest).
urlsToCache == {U_ROOT, U_INDEX, U_MANIFEST, U_FONT}

\* The first characters of request.url.
Href(u) ==
    CASE u = U_FONT   -> <<"h", "t", "t", "p", "s", ":">>
      [] u = U_BANNER -> <<"h", "t", "t", "p", ":">>
      [] u = U_EXT    -> <<"c", "h", "r", "o", "m", "e", "-">>
      [] u = U_DATA   -> <<"d", "a", "t", "a", ":">>
      [] OTHER        -> <<"h", "t", "t", "p", "s", ":">>

\* The URL's scheme, as the URL parser reports it.
Scheme(u) ==
    CASE u = U_BANNER -> "http"
      [] u = U_EXT    -> "chrome-extension"
      [] u = U_DATA   -> "data"
      [] OTHER        -> "https"

CrossOrigin(u) == u \in {U_FONT, U_BANNER, U_EXT, U_DATA}

\* String.prototype.startsWith
StartsWith(s, prefix) ==
    /\ Len(s) >= Len(prefix)
    /\ SubSeq(s, 1, Len(prefix)) = prefix

\* Versions of a resource's content on the server.
Bodies == {"a", "b"}

NoResp == [status |-> -1, type |-> "none", body |-> "none"]

Resp(status, type, body) == [status |-> status, type |-> type, body |-> body]

\* new Response('', { status: 204, statusText: 'No Content' })
NoContent == Resp(204, "default", "")

\* A cache is a function from the URLs it holds to the stored responses.
EmptyCache == [u \in {} |-> NoResp]

\* cache.match(url): the stored response, or undefined
CacheGet(cache, u) == IF u \in DOMAIN cache THEN cache[u] ELSE NoResp

\* cache.put(url, response): insert or overwrite
CachePut(cache, u, response) ==
    [x \in DOMAIN cache \cup {u} |-> IF x = u THEN response ELSE cache[x]]

\* What the earlier versions' caches hold: their pre-fetched assets.
OldEntries == [u \in urlsToCache |->
                  Resp(200, IF CrossOrigin(u) THEN "cors" ELSE "basic", "a")]

\* CacheStorage.open(name): creates the cache when it does not exist.
CachesOpen(names, name) ==
    IF \E i \in DOMAIN names : names[i] = name THEN names ELSE Append(names, name)

\* CacheStorage.match(request): the first match over all caches, in
\* creation order.
RECURSIVE CachesMatch(_, _, _)
CachesMatch(names, ents, u) ==
    IF names = <<>> THEN NoResp
    ELSE IF CacheGet(ents[Head(names)], u) # NoResp THEN CacheGet(ents[Head(names)], u)
         ELSE CachesMatch(Tail(names), ents, u)

(***************************************************************************)
(* Requests that reach the fetch handler.                                  *)
(***************************************************************************)
Request(method, u, mode, destination) ==
    [method |-> method, url |-> u, mode |-> mode, destination |-> destination]

Requests ==
    { Request("GET", U_ROOT, "navigate", "document"),
      Request("GET", U_INDEX, "navigate", "document"),
      Request("GET", U_MANIFEST, "cors", "manifest"),
      Request("GET", U_FONT, "no-cors", "style"),
      Request("GET", U_PHOTO, "no-cors", "image"),
      Request("GET", U_BANNER, "no-cors", "image"),
      Request("POST", U_API, "cors", ""),
      Request("POST", U_INDEX, "navigate", "document"),
      Request("GET", U_EXT, "no-cors", "script"),
      Request("GET", U_DATA, "no-cors", "image") }

NoRequest == Request("", "", "", "")

\* What the network can answer to fetch(request), when it answers.
NetResponses(r) ==
    IF CrossOrigin(r.url)
    THEN IF r.mode = "no-cors"
         THEN {Resp(0, "opaque", b) : b \in Bodies}
         ELSE {Resp(200, "cors", b) : b \in Bodies}
    ELSE {Resp(st, "basic", b) : st \in {200, 404}, b \in Bodies}

(***************************************************************************)
(* install: caches.open(CACHE_NAME)                                        *)
(***************************************************************************)
\* Variant of InstallOpen: install starts from an empty store, the older
\* caches are dropped when the new one is opened.
InstallOpenEvicts ==
    /\ lpc = "parsed"
    /\ cacheNames' = CachesOpen(SelectSeq(cacheNames, LAMBDA n : n = CACHE_NAME),
                                CACHE_NAME)
    /\ entries' = [n \in Names |-> IF n = CACHE_NAME THEN entries[n] ELSE EmptyCache]
    /\ lpc' = "installing"
    /\ UNCHANGED <<toDelete, deleted, populated, skipWaiting, claimed,
                   fpc, req, fres, lookedUp, fhit, netCalled, putIssued, pendingPuts>>
    /\ UNCHANGED <<drainVars, maintVars, oldVars, syncVars>>

InstallOpen ==
    /\ lpc = "parsed"
    /\ cacheNames' = CachesOpen(cacheNames, CACHE_NAME)
    /\ lpc' = "installing"
    /\ UNCHANGED <<entries, toDelete, deleted, populated, skipWaiting, claimed,
                   fpc, req, fres, lookedUp, fhit, netCalled, putIssued, pendingPuts>>
    /\ UNCHANGED <<drainVars, maintVars, oldVars, syncVars>>

(***************************************************************************)
(* install: cache.addAll(urlsToCache), then skipWaiting(); a rejection is  *)
(* caught and logged.  addAll stores nothing unless every URL was fetched  *)
(* with an ok status.                                                      *)
(***************************************************************************)
\* Variant of AddAll: the responses that did arrive are stored although the
\* call rejects.
AddAllPartial(cache, urls, unreachable, b) ==
    [u \in DOMAIN cache \cup (urls \ unreachable) |->
        IF u \in urls \ unreachable
        THEN Resp(200, IF CrossOrigin(u) THEN "cors" ELSE "basic", b)
        ELSE cache[u]]

AddAll(cache, urls, unreachable, b) ==
    IF unreachable = {}
    THEN [u \in DOMAIN cache \cup urls |->
             IF u \in urls
             THEN Resp(200, IF CrossOrigin(u) THEN "cors" ELSE "basic", b)
             ELSE cache[u]]
    ELSE cache

\* The sets of pre-fetch URLs that are followed as unreachable during one
\* cache.addAll: none, the cross-origin one, two same-origin ones, all.
Unreachables == {{}, {U_FONT}, {U_INDEX, U_MANIFEST}, urlsToCache}

\* Whether cache.addAll(urls) resolves: it rejects when a fetch failed.
AddAllResolves(unreachable) == unreachable = {}

\* Record of one cache.addAll call.
PopRecord(caller, unreachable, resolved, before, after) ==
    [caller |-> caller, unreachable |-> unreachable, resolved |-> resolved,
     before |-> before, after |-> after]

NoPopulate == PopRecord("none", {}, FALSE, EmptyCache, EmptyCache)

\* Variant of InstallAddAll: no catch, so a rejected addAll rejects the
\* promise given to waitUntil and the worker is discarded.
InstallAddAllRejects ==
    /\ lpc = "installing"
    /\ \E unreachable \in Unreachables, b \in Bodies :
         /\ entries' = [entries EXCEPT ![CACHE_NAME] =
                           AddAll(entries[CACHE_NAME], urlsToCache, unreachable, b)]
         /\ populated' = IF AddAllResolves(unreachable) THEN "ok" ELSE "failed"
         /\ skipWaiting' = AddAllResolves(unreachable)
         /\ popLog' = PopRecord("install", unreachable, AddAllResolves(unreachable),
                                entries[CACHE_NAME], entries'[CACHE_NAME])
         /\ lpc' = IF AddAllResolves(unreachable) THEN "installed" ELSE "redundant"
    /\ UNCHANGED <<cacheNames, toDelete, deleted, claimed,
                   fpc, req, fres, lookedUp, fhit, netCalled, putIssued, pendingPuts>>
    /\ UNCHANGED <<drainVars, oldVars, syncVars, upc, fuToDelete, fuBefore, fuRuns, ppc, pIdx, pResp,
                   pLog, pnotes, mnotes>>

InstallAddAll ==
    /\ lpc = "installing"
    /\ \E unreachable \in Unreachables, b \in Bodies :
         /\ entries' = [entries EXCEPT ![CACHE_NAME] =
                           AddAll(entries[CACHE_NAME], urlsToCache, unreachable, b)]
         /\ populated' = IF AddAllResolves(unreachable) THEN "ok" ELSE "failed"
         /\ skipWaiting' = AddAllResolves(unreachable)
         /\ popLog' = PopRecord("install", unreachable, AddAllResolves(unreachable),
                                entries[CACHE_NAME], entries'[CACHE_NAME])
    /\ lpc' = "installed"
    /\ UNCHANGED <<cacheNames, toDelete, deleted, claimed,
                   fpc, req, fres, lookedUp, fhit, netCalled, putIssued, pendingPuts>>
    /\ UNCHANGED <<drainVars, oldVars, syncVars, upc, fuToDelete, fuBefore, fuRuns, ppc, pIdx, pResp,
                   pLog, pnotes, mnotes>>

(***************************************************************************)
(* activate: caches.keys(), the names to delete; clients.claim().          *)
(***************************************************************************)
\* Variant of NamesToDelete: only the previous version's cache is deleted.
NamesToDeletePrevious(names) ==
    {names[i] : i \in DOMAIN names} \cap {"magical-adventure-v3"}

NamesToDelete(names) == {names[i] : i \in DOMAIN names} \ {CACHE_NAME}

ActivateStart ==
    /\ lpc = "installed"
    /\ toDelete' = NamesToDelete(cacheNames)
    /\ claimed' = TRUE
    /\ lpc' = "activating"
    /\ UNCHANGED <<cacheNames, entries, deleted, populated, skipWaiting,
                   fpc, req, fres, lookedUp, fhit, netCalled, putIssued, pendingPuts>>
    /\ UNCHANGED <<drainVars, maintVars, oldVars, syncVars>>

\* activate: one caches.delete(cacheName) takes effect
ActivateDelete(name) ==
    /\ lpc = "activating"
    /\ name \in toDelete
    /\ cacheNames' = Without(cacheNames, name)
    /\ entries' = [entries EXCEPT ![name] = EmptyCache]
    /\ toDelete' = toDelete \ {name}
    /\ deleted' = deleted \cup {name}
    /\ UNCHANGED <<lpc, populated, skipWaiting, claimed,
                   fpc, req, fres, lookedUp, fhit, netCalled, putIssued, pendingPuts>>
    /\ UNCHANGED <<drainVars, maintVars, oldVars, syncVars>>

\* activate: Promise.all resolved
ActivateDone ==
    /\ lpc = "activating"
    /\ toDelete = {}
    /\ lpc' = "activated"
    /\ UNCHANGED <<cacheNames, entries, toDelete, deleted, populated, skipWaiting,
                   claimed, fpc, req, fres, lookedUp, fhit, netCalled, putIssued,
                   pendingPuts>>
    /\ UNCHANGED <<drainVars, maintVars, oldVars, syncVars>>

(***************************************************************************)
(* fetch handler.                                                          *)
(***************************************************************************)
\* Variant of ShouldSkip: && in place of ||.
ShouldSkipBoth(r) ==
    r.method # "GET" /\ ~StartsWith(Href(r.url), <<"h", "t", "t", "p">>)

\* part_001: if (method !== 'GET' || !url.startsWith('http')) return;
ShouldSkip(r) ==
    r.method # "GET" \/ ~StartsWith(Href(r.url), <<"h", "t", "t", "p">>)

\* sw.js, part_000: the same test as two consecutive if statements
ShouldSkipV2(r) ==
    IF r.method # "GET" THEN TRUE
    ELSE IF ~StartsWith(Href(r.url), <<"h", "t", "t", "p">>) THEN TRUE
    ELSE FALSE

NotIntercepted == [kind |-> "notIntercepted", resp |-> NoResp]
Pending == [kind |-> "pending", resp |-> NoResp]
Answer(resp) == [kind |-> "response", resp |-> resp]
Rejected == [kind |-> "error", resp |-> NoResp]
Undefined == [kind |-> "undefined", resp |-> NoResp]

\* The fetch event arrives.  A skipped request is left to the browser.
FetchEvent(r) ==
    /\ lpc = "activated"
    /\ fpc \in {"idle", "done"}
    /\ Cardinality(pendingPuts) < MaxPendingPuts
    /\ req' = r
    /\ lookedUp' = FALSE
    /\ fhit' = NoResp
    /\ netCalled' = FALSE
    /\ putIssued' = FALSE
    /\ IF ShouldSkip(r)
       THEN /\ fres' = NotIntercepted
            /\ fpc' = "done"
       ELSE /\ fres' = Pending
            /\ fpc' = "match"
    /\ UNCHANGED <<cacheNames, entries, lpc, toDelete, deleted, populated,
                   skipWaiting, claimed, pendingPuts>>
    /\ UNCHANGED <<drainVars, maintVars, oldVars, syncVars>>

\* Variant of Match: a hit is answered from the cache and refreshed from the
\* network all the same.
MatchRevalidates ==
    /\ fpc = "match"
    /\ LET cachedResponse == CachesMatch(cacheNames, entries, req.url) IN
         /\ lookedUp' = TRUE
         /\ fhit' = cachedResponse
         /\ fres' = IF cachedResponse # NoResp THEN Answer(cachedResponse) ELSE fres
         /\ fpc' = "network"
    /\ UNCHANGED <<cacheNames, entries, lpc, toDelete, deleted, populated,
                   skipWaiting, claimed, req, netCalled, putIssued, pendingPuts>>
    /\ UNCHANGED <<drainVars, maintVars, oldVars, syncVars>>

\* caches.match(event.request).then(cachedResponse => ...)
Match ==
    /\ fpc = "match"
    /\ LET cachedResponse == CachesMatch(cacheNames, entries, req.url) IN
         /\ lookedUp' = TRUE
         /\ fhit' = cachedResponse
         /\ IF cachedResponse # NoResp
            THEN /\ fres' = Answer(cachedResponse)
                 /\ fpc' = "done"
            ELSE /\ fres' = fres
                 /\ fpc' = "network"
    /\ UNCHANGED <<cacheNames, entries, lpc, toDelete, deleted, populated,
                   skipWaiting, claimed, req, netCalled, putIssued, pendingPuts>>
    /\ UNCHANGED <<drainVars, maintVars, oldVars, syncVars>>

\* Navigation: cache every status-200 answer.
NavigateStores(response) == response.status = 200

\* Other requests: cache only status 200 of type 'basic'.
OtherStores(response) == response.status = 200 /\ response.type = "basic"

\* fetch(event.request) answered with `response`
NetworkAnswer(response) ==
    LET stores == IF req.mode = "navigate" THEN NavigateStores(response)
                  ELSE OtherStores(response) IN
    /\ fres' = Answer(response)
    /\ putIssued' = stores
    /\ pendingPuts' = IF stores
                      THEN pendingPuts \cup {[url |-> req.url, resp |-> response]}
                      ELSE pendingPuts

\* Variant of NetworkFailure: the no-content answer for every request that
\* is not a navigation.
NetworkFailureNoContent ==
    /\ UNCHANGED <<putIssued, pendingPuts>>
    /\ fres' =
         IF req.mode = "navigate"
         THEN LET fallback == CachesMatch(cacheNames, entries, U_INDEX) IN
              IF fallback # NoResp THEN Answer(fallback) ELSE Undefined
         ELSE Answer(NoContent)

\* fetch(event.request) rejected
NetworkFailure ==
    /\ UNCHANGED <<putIssued, pendingPuts>>
    /\ fres' =
         IF req.mode = "navigate"
         THEN LET fallback == CachesMatch(cacheNames, entries, U_INDEX) IN
              IF fallback # NoResp THEN Answer(fallback) ELSE Undefined
         ELSE IF req.destination = "image" THEN Answer(NoContent)
         ELSE Rejected

Network ==
    /\ fpc = "network"
    /\ netCalled' = TRUE
    /\ \/ \E response \in NetResponses(req) : NetworkAnswer(response)
       \/ NetworkFailure
    /\ fpc' = "done"
    /\ UNCHANGED <<cacheNames, entries, lpc, toDelete, deleted, populated,
                   skipWaiting, claimed, req, lookedUp, fhit>>
    /\ UNCHANGED <<drainVars, maintVars, oldVars, syncVars>>

\* Variant of PutLands: the cache is opened and the write is dropped.
PutDropped(p) ==
    /\ p \in pendingPuts
    /\ cacheNames' = CachesOpen(cacheNames, CACHE_NAME)
    /\ entries' = entries
    /\ pendingPuts' = pendingPuts \ {p}
    /\ UNCHANGED <<lpc, toDelete, deleted, populated, skipWaiting, claimed,
                   fpc, req, fres, lookedUp, fhit, netCalled, putIssued>>
    /\ UNCHANGED <<drainVars, maintVars, oldVars, syncVars>>

\* caches.open(CACHE_NAME).then(cache => cache.put(request, responseClone))
PutLands(p) ==
    /\ p \in pendingPuts
    /\ cacheNames' = CachesOpen(cacheNames, CACHE_NAME)
    /\ entries' = [entries EXCEPT ![CACHE_NAME] = CachePut(entries[CACHE_NAME], p.url, p.resp)]
    /\ pendingPuts' = pendingPuts \ {p}
    /\ UNCHANGED <<lpc, toDelete, deleted, populated, skipWaiting, claimed,
                   fpc, req, fres, lookedUp, fhit, netCalled, putIssued>>
    /\ UNCHANGED <<drainVars, maintVars, oldVars, syncVars>>

(***************************************************************************)
(* The previous worker's fetch handler (src/unnamed/part_000).  It gets    *)
(* fetch events until the v4 worker activates; a handler that has started  *)
(* goes on whatever the v4 worker does meanwhile.                          *)
(***************************************************************************)
PREV_CACHE_NAME == "magical-adventure-v3"

\* The requests followed through the previous worker's handler.
OldRequests ==
    { Request("GET", U_INDEX, "navigate", "document"),
      Request("GET", U_PHOTO, "no-cors", "image"),
      Request("POST", U_API, "cors", "") }

NameSet(names) == {names[i] : i \in DOMAIN names}

\* fetch event: the two early returns, else respondWith(caches.match(...))
OldFetchEvent(r) ==
    /\ lpc \in {"parsed", "installing", "installed"}
    /\ opc \in {"idle", "done"}
    /\ Cardinality(oldPuts) < MaxPendingPuts
    /\ oreq' = r
    /\ oseen' = {}
    /\ IF ShouldSkipV2(r)
       THEN /\ ores' = NotIntercepted
            /\ opc' = "done"
       ELSE /\ ores' = Pending
            /\ opc' = "match"
    /\ UNCHANGED oldPuts
    /\ UNCHANGED <<drainVars, cacheVars, maintVars, syncVars>>

\* caches.match(event.request).then(response => ...)
OldMatch ==
    /\ opc = "match"
    /\ oseen' = NameSet(cacheNames)
    /\ LET response == CachesMatch(cacheNames, entries, oreq.url) IN
         IF response # NoResp
         THEN /\ ores' = Answer(response)
              /\ opc' = "done"
         ELSE /\ ores' = ores
              /\ opc' = "network"
    /\ UNCHANGED <<oreq, oldPuts>>
    /\ UNCHANGED <<drainVars, cacheVars, maintVars, syncVars>>

\* fetch(event.request): cache a 200 'basic' answer; on failure the cached
\* index.html for a document, else rethrow.
OldNetwork ==
    /\ opc = "network"
    /\ \/ \E response \in NetResponses(oreq) :
            /\ ores' = Answer(response)
            /\ oldPuts' = IF OtherStores(response)
                          THEN oldPuts \cup {[url |-> oreq.url, resp |-> response]}
                          ELSE oldPuts
       \/ /\ UNCHANGED oldPuts
          /\ ores' = IF oreq.destination = "document"
                     THEN LET fallback == CachesMatch(cacheNames, entries, U_INDEX) IN
                          IF fallback # NoResp THEN Answer(fallback) ELSE Undefined
                     ELSE Rejected
    /\ opc' = "done"
    /\ UNCHANGED <<oreq, oseen>>
    /\ UNCHANGED <<drainVars, cacheVars, maintVars, syncVars>>

\* caches.open(CACHE_NAME).then(cache => cache.put(request, responseToCache)),
\* with the previous worker's CACHE_NAME: open creates the cache if absent.
OldPutLands(p) ==
    /\ p \in oldPuts
    /\ cacheNames' = CachesOpen(cacheNames, PREV_CACHE_NAME)
    /\ entries' = [entries EXCEPT ![PREV_CACHE_NAME] =
                      CachePut(entries[PREV_CACHE_NAME], p.url, p.resp)]
    /\ oldPuts' = oldPuts \ {p}
    /\ UNCHANGED <<lifeVars, fetchVars>>
    /\ UNCHANGED <<opc, oreq, ores, oseen>>
    /\ UNCHANGED <<drainVars, maintVars, syncVars>>

(***************************************************************************)
(* sync 'magical-data-sync': syncMagicalData().                            *)
(***************************************************************************)
Versions == {"v3", "v4"}

\* getMagicalData's result when a localStorage access throws
Null == [kind |-> "null", selectedWand |-> "null"]

\* Values of the 'selected_wand' item; "null" when it was never set
Wands == {"null", "phoenix"}

\* The snapshot object getMagicalData assembles
Snapshot(wand) == [kind |-> "data", selectedWand |-> wand]

\* getMagicalData: the fields read from localStorage, null on any error
getMagicalData(m, accessOk) == IF accessOk THEN Snapshot(m) ELSE Null

MagicalDataSuccess(data) == [type |-> "MAGICAL_DATA_SYNC_SUCCESS", data |-> data]

\* Variant of Missing: the snapshot is never taken as missing.
MissingNever(magicalData) == FALSE

\* !magicalData
Missing(magicalData) == magicalData = Null

\* The application stores the chosen wand (outside the service worker).
SelectWand ==
    /\ magic = "null"
    /\ \E w \in Wands \ {"null"} : magic' = w
    /\ UNCHANGED <<apc, atag, aver, asnap, asubmits, anotes, aresult>>
    /\ UNCHANGED <<drainVars, cacheVars, maintVars, oldVars, contentVars, unknownTag>>

\* The outer catch of script version v: part_001 logs; part_000 logs and
\* rethrows.
CatchResult(v) == IF v = "v4" THEN "fulfilled" ELSE "rejected"

AggCatch == aresult' = CatchResult(aver)

\* const magicalData = await getMagicalData(); nothing more when it is null
SyncMagicalDataStart(v) ==
    /\ apc \in {"idle", "done"}
    /\ atag' = "magical-data-sync"
    /\ aver' = v
    /\ asubmits' = <<>>
    /\ anotes' = <<>>
    /\ \E accessOk \in BOOLEAN :
         asnap' = getMagicalData(magic, accessOk)
    /\ IF Missing(asnap')
       THEN /\ apc' = "done"
            /\ aresult' = "fulfilled"
       ELSE /\ apc' = "submit"
            /\ aresult' = "none"
    /\ UNCHANGED magic
    /\ UNCHANGED <<drainVars, cacheVars, maintVars, oldVars, contentVars, unknownTag>>

\* Variant of SyncMagicalDataSubmit: the notification follows whatever the
\* submit did.
SyncMagicalDataSubmitThenNotify ==
    /\ apc = "submit"
    /\ \E ok \in BOOLEAN :
         asubmits' = IF ok THEN Append(asubmits, asnap) ELSE asubmits
    /\ apc' = "notify"
    /\ UNCHANGED <<magic, atag, aver, asnap, anotes, aresult>>
    /\ UNCHANGED <<drainVars, cacheVars, maintVars, oldVars, contentVars, unknownTag>>

\* await syncMagicalDataToServer(magicalData): resolves or throws
SyncMagicalDataSubmit ==
    /\ apc = "submit"
    /\ \E ok \in BOOLEAN :
         IF ok
         THEN /\ asubmits' = Append(asubmits, asnap)
              /\ apc' = "notify"
              /\ UNCHANGED aresult
         ELSE /\ apc' = "done"
              /\ AggCatch
              /\ UNCHANGED asubmits
    /\ UNCHANGED <<magic, atag, aver, asnap, anotes>>
    /\ UNCHANGED <<drainVars, cacheVars, maintVars, oldVars, contentVars, unknownTag>>

\* await notifyClients({type: 'MAGICAL_DATA_SYNC_SUCCESS', data}): the
\* message is handed over; clients.matchAll may reject.
SyncMagicalDataNotify ==
    /\ apc = "notify"
    /\ anotes' = Append(anotes, MagicalDataSuccess(asnap))
    /\ apc' = "done"
    /\ \E ok \in BOOLEAN :
         IF ok THEN aresult' = "fulfilled" ELSE AggCatch
    /\ UNCHANGED <<magic, atag, aver, asnap, asubmits>>
    /\ UNCHANGED <<drainVars, cacheVars, maintVars, oldVars, contentVars, unknownTag>>

(***************************************************************************)
(* sync 'content-update-sync': syncContentUpdates().                       *)
(* getContentUpdates and applyContentUpdate are called by the handler and  *)
(* defined nowhere in the script: the first yields the list of pending     *)
(* content updates, the second applies one and may fail.  A call that      *)
(* throws, as a call of an undefined function does, lands in the outer     *)
(* catch.                                                                  *)
(***************************************************************************)
\* The lists getContentUpdates can yield: updates 1..n in enqueue order.
ContentLists == {[i \in 1..n |-> i] : n \in 0..MaxUpdates}

ContentSyncSuccess == [type |-> "CONTENT_SYNC_SUCCESS"]

\* const contentUpdates = await getContentUpdates();
ContentStart ==
    /\ cpc \in {"idle", "done"}
    /\ cattempts' = <<>>
    /\ cnotes' = <<>>
    /\ \/ \E updates \in ContentLists :
            /\ contentUpdates' = updates
            /\ cidx' = IF updates = <<>> THEN 0 ELSE 1
            /\ cpc' = IF updates = <<>> THEN "notify" ELSE "apply"
            /\ cresult' = "none"
       \/ /\ contentUpdates' = <<>>
          /\ cidx' = 0
          /\ cpc' = "done"
          /\ cresult' = CatchResult("v4")
    /\ UNCHANGED <<drainVars, cacheVars, maintVars, oldVars, aggVars, unknownTag>>

\* for (const update of contentUpdates) { await applyContentUpdate(update); }
\* There is no try inside the loop: a throw leaves it for the outer catch.
ContentApply ==
    /\ cpc = "apply"
    /\ \E ok \in BOOLEAN :
         /\ cattempts' = Append(cattempts, <<contentUpdates[cidx], ok>>)
         /\ IF ~ok
            THEN /\ cidx' = cidx
                 /\ cpc' = "done"
                 /\ cresult' = CatchResult("v4")
            ELSE /\ IF cidx < Len(contentUpdates)
                    THEN /\ cidx' = cidx + 1
                         /\ cpc' = "apply"
                    ELSE /\ cidx' = cidx
                         /\ cpc' = "notify"
                 /\ UNCHANGED cresult
    /\ UNCHANGED <<contentUpdates, cnotes>>
    /\ UNCHANGED <<drainVars, cacheVars, maintVars, oldVars, aggVars, unknownTag>>

\* await notifyClients({type: 'CONTENT_SYNC_SUCCESS', ...}), after the loop
\* and whatever the length of the list; a throw is caught and logged.
ContentNotify ==
    /\ cpc = "notify"
    /\ cnotes' = Append(cnotes, ContentSyncSuccess)
    /\ cpc' = "done"
    /\ cresult' = "fulfilled"
    /\ UNCHANGED <<contentUpdates, cidx, cattempts>>
    /\ UNCHANGED <<drainVars, cacheVars, maintVars, oldVars, aggVars, unknownTag>>

(***************************************************************************)
(* message FORCE_UPDATE: forceUpdate().                                    *)
(***************************************************************************)
ForceUpdateComplete == [type |-> "FORCE_UPDATE_COMPLETE"]

ContentUpdated == [type |-> "CONTENT_UPDATED"]

\* The caches as a handler finds them: names in order, and their contents.
Store(names, ents) == [names |-> names, entries |-> ents]

NoStore == Store(<<>>, [n \in Names |-> EmptyCache])

\* Variant of ForceNamesToDelete: each run deletes one non-current cache only.
ForceNamesToDeleteOne(names) ==
    LET old == SelectSeq(names, LAMBDA n : n # CACHE_NAME)
    IN  IF old = <<>> THEN {} ELSE {Head(old)}

\* cacheNames.map(cacheName => cacheName !== CACHE_NAME ? delete : undefined)
ForceNamesToDelete(names) == {names[i] : i \in DOMAIN names} \ {CACHE_NAME}

\* const cacheNames = await caches.keys(); the deletions are issued.
\* A page can post the message to the waiting worker as well as to the
\* active one.
ForceStart ==
    /\ lpc \in {"installed", "activated"}
    /\ upc \in {"idle", "done"}
    /\ Len(fuRuns) < MaxForceRuns
    /\ fuToDelete' = ForceNamesToDelete(cacheNames)
    /\ fuBefore' = [store |-> Store(cacheNames, entries),
                    quiet |-> pendingPuts = {} /\ oldPuts = {}]
    /\ upc' = "delete"
    /\ UNCHANGED <<cacheNames, entries, lifeVars, fetchVars>>
    /\ UNCHANGED <<drainVars, oldVars, syncVars, fuRuns, popLog, ppc, pIdx, pResp, pLog, pnotes, mnotes>>

\* one caches.delete(cacheName) takes effect
ForceDelete(name) ==
    /\ upc = "delete"
    /\ name \in fuToDelete
    /\ cacheNames' = Without(cacheNames, name)
    /\ entries' = [entries EXCEPT ![name] = EmptyCache]
    /\ fuToDelete' = fuToDelete \ {name}
    /\ UNCHANGED <<lifeVars, fetchVars>>
    /\ UNCHANGED <<drainVars, oldVars, syncVars, upc, fuBefore, fuRuns, popLog, ppc, pIdx, pResp, pLog, pnotes, mnotes>>

\* A finished cache phase of forceUpdate: the network it met, the caches it
\* found and the caches it left, and whether it ran with no put of a fetch
\* handler in flight.
ForceRun(unreachable, b, before, after) ==
    [unreachable |-> unreachable, body |-> b, before |-> before.store,
     after |-> after, quiet |-> before.quiet]

\* Variant of ForceAddAll: the notification is sent whatever addAll did.
ForceAddAllNotifiesAlways ==
    /\ upc = "delete"
    /\ fuToDelete = {}
    /\ cacheNames' = CachesOpen(cacheNames, CACHE_NAME)
    /\ \E unreachable \in Unreachables, b \in Bodies :
         /\ entries' = [entries EXCEPT ![CACHE_NAME] =
                           AddAll(entries[CACHE_NAME], urlsToCache, unreachable, b)]
         /\ popLog' = PopRecord("forceUpdate", unreachable, AddAllResolves(unreachable),
                                entries[CACHE_NAME], entries'[CACHE_NAME])
         /\ fuRuns' = Append(fuRuns, ForceRun(unreachable, b, fuBefore,
                                              Store(cacheNames', entries')))
         /\ upc' = "notify"
    /\ UNCHANGED <<lifeVars, fetchVars>>
    /\ UNCHANGED <<drainVars, oldVars, syncVars, fuToDelete, fuBefore, ppc, pIdx, pResp, pLog, pnotes, mnotes>>

\* Promise.all resolved; caches.open(CACHE_NAME); await cache.addAll(urlsToCache).
\* A rejection goes to the catch block, which logs.
ForceAddAll ==
    /\ upc = "delete"
    /\ fuToDelete = {}
    /\ cacheNames' = CachesOpen(cacheNames, CACHE_NAME)
    /\ \E unreachable \in Unreachables, b \in Bodies :
         /\ entries' = [entries EXCEPT ![CACHE_NAME] =
                           AddAll(entries[CACHE_NAME], urlsToCache, unreachable, b)]
         /\ popLog' = PopRecord("forceUpdate", unreachable, AddAllResolves(unreachable),
                                entries[CACHE_NAME], entries'[CACHE_NAME])
         /\ fuRuns' = Append(fuRuns, ForceRun(unreachable, b, fuBefore,
                                              Store(cacheNames', entries')))
         /\ upc' = IF AddAllResolves(unreachable) THEN "notify" ELSE "done"
    /\ UNCHANGED <<lifeVars, fetchVars>>
    /\ UNCHANGED <<drainVars, oldVars, syncVars, fuToDelete, fuBefore, ppc, pIdx, pResp, pLog, pnotes, mnotes>>

\* await notifyClients({type: 'FORCE_UPDATE_COMPLETE'}); a throw is caught.
ForceNotify ==
    /\ upc = "notify"
    /\ mnotes' = Append(mnotes, ForceUpdateComplete)
    /\ upc' = "done"
    /\ UNCHANGED cacheVars
    /\ UNCHANGED <<drainVars, oldVars, syncVars, fuToDelete, fuBefore, fuRuns, popLog, ppc, pIdx, pResp, pLog,
                   pnotes>>

(***************************************************************************)
(* periodicsync 'magical-content-update': periodicContentUpdate().         *)
(***************************************************************************)
criticalUrls == <<U_ROOT, U_INDEX, U_MANIFEST>>

\* What fetch(url) can resolve with for a critical (same-origin) URL.
CriticalResponses == {Resp(st, "basic", b) : st \in {200, 404}, b \in Bodies}

\* response.ok
IsOk(response) == response.status >= 200 /\ response.status <= 299

\* One URL's outcome in a periodic run.
Refresh(url, outcome, response) == [url |-> url, outcome |-> outcome, resp |-> response]

\* Variant of PeriodicNextUrl: a failure ends the loop.
PeriodicAbortOnFailure(outcome) ==
    IF outcome \in {"fetchFailed", "putFailed"} \/ pIdx = Len(criticalUrls)
    THEN /\ pIdx' = pIdx
         /\ ppc' = "notify"
    ELSE /\ pIdx' = pIdx + 1
         /\ ppc' = "fetch"

\* End of one iteration of for (const url of criticalUrls), in the try block
\* or in its catch.
PeriodicNextUrl(outcome) ==
    IF pIdx < Len(criticalUrls)
    THEN /\ pIdx' = pIdx + 1
         /\ ppc' = "fetch"
    ELSE /\ pIdx' = pIdx
         /\ ppc' = "notify"

\* const cache = await caches.open(CACHE_NAME)
PeriodicStart ==
    /\ lpc = "activated"
    /\ ppc \in {"idle", "done"}
    /\ cacheNames' = CachesOpen(cacheNames, CACHE_NAME)
    /\ pIdx' = 1
    /\ pLog' = <<>>
    /\ pResp' = NoResp
    /\ ppc' = "fetch"
    /\ pnotes' = <<>>
    /\ UNCHANGED <<entries, lifeVars, fetchVars>>
    /\ UNCHANGED <<drainVars, oldVars, syncVars, upc, fuToDelete, fuBefore, fuRuns, popLog, mnotes>>

\* const response = await fetch(url); if (response.ok) ...
PeriodicFetch ==
    /\ ppc = "fetch"
    /\ \/ \E response \in CriticalResponses :
            IF IsOk(response)
            THEN /\ pResp' = response
                 /\ ppc' = "put"
                 /\ UNCHANGED <<pIdx, pLog>>
            ELSE /\ pLog' = Append(pLog, Refresh(criticalUrls[pIdx], "notOk", response))
                 /\ PeriodicNextUrl("notOk")
                 /\ UNCHANGED pResp
       \/ /\ pLog' = Append(pLog, Refresh(criticalUrls[pIdx], "fetchFailed", NoResp))
          /\ PeriodicNextUrl("fetchFailed")
          /\ UNCHANGED pResp
    /\ UNCHANGED cacheVars
    /\ UNCHANGED <<drainVars, oldVars, syncVars, upc, fuToDelete, fuBefore, fuRuns, popLog, pnotes, mnotes>>

\* await cache.put(url, response.clone()); a rejection is caught per URL.
\* The handle writes to the cache it was opened on, also after a delete.
PeriodicPut ==
    /\ ppc = "put"
    /\ \E putOk \in BOOLEAN :
         IF putOk
         THEN /\ entries' = [entries EXCEPT ![CACHE_NAME] =
                                CachePut(entries[CACHE_NAME], criticalUrls[pIdx], pResp)]
              /\ pLog' = Append(pLog, Refresh(criticalUrls[pIdx], "stored", pResp))
              /\ PeriodicNextUrl("stored")
         ELSE /\ entries' = entries
              /\ pLog' = Append(pLog, Refresh(criticalUrls[pIdx], "putFailed", pResp))
              /\ PeriodicNextUrl("putFailed")
    /\ pResp' = NoResp
    /\ UNCHANGED <<cacheNames, lifeVars, fetchVars>>
    /\ UNCHANGED <<drainVars, oldVars, syncVars, upc, fuToDelete, fuBefore, fuRuns, popLog, pnotes, mnotes>>

\* Variant of PeriodicNotify: the notification is sent only when some URL
\* was stored.
PeriodicNotifyIfStored ==
    /\ ppc = "notify"
    /\ pnotes' = IF \E i \in DOMAIN pLog : pLog[i].outcome = "stored"
                 THEN Append(pnotes, ContentUpdated) ELSE pnotes
    /\ ppc' = "done"
    /\ UNCHANGED cacheVars
    /\ UNCHANGED <<drainVars, oldVars, syncVars, upc, fuToDelete, fuBefore, fuRuns, popLog, pIdx, pResp, pLog,
                   mnotes>>

\* await notifyClients({type: 'CONTENT_UPDATED'}); a throw is caught.
PeriodicNotify ==
    /\ ppc = "notify"
    /\ pnotes' = Append(pnotes, ContentUpdated)
    /\ ppc' = "done"
    /\ UNCHANGED cacheVars
    /\ UNCHANGED <<drainVars, oldVars, syncVars, upc, fuToDelete, fuBefore, fuRuns, popLog, pIdx, pResp, pLog,
                   mnotes>>

(***************************************************************************)
(* Specification of the Resource Cache side.                               *)
(***************************************************************************)
\* Sequences without repetition over a set: the caches the worker can find.
RECURSIVE Orders(_)
Orders(S) ==
    IF S = {} THEN {<<>>}
    ELSE UNION {{<<x>> \o t : t \in Orders(S \ {x})} : x \in S}

NoCacheActivity ==
    /\ lpc = "parsed"
    /\ toDelete = {}
    /\ deleted = {}
    /\ populated = "none"
    /\ skipWaiting = FALSE
    /\ claimed = FALSE
    /\ fpc = "idle"
    /\ req = NoRequest
    /\ fres = Pending
    /\ lookedUp = FALSE
    /\ fhit = NoResp
    /\ netCalled = FALSE
    /\ putIssued = FALSE
    /\ pendingPuts = {}

\* The previous worker is handling nothing.
OldIdle ==
    /\ opc = "idle"
    /\ oreq = NoRequest
    /\ ores = Pending
    /\ oseen = {}

OldInit == OldIdle /\ oldPuts = {}

\* No content-update sync has run.
ContentInit ==
    /\ cpc = "idle"
    /\ contentUpdates = <<>>
    /\ cidx = 0
    /\ cattempts = <<>>
    /\ cnotes = <<>>
    /\ cresult = "none"
    /\ unknownTag = "none"

\* No aggregate-data sync has run.
AggInit ==
    /\ magic = "null"
    /\ apc = "idle"
    /\ atag = "none"
    /\ aver = "v4"
    /\ asnap = Null
    /\ asubmits = <<>>
    /\ anotes = <<>>
    /\ aresult = "none"

\* No maintenance handler has run.
MaintInit ==
    /\ upc = "idle"
    /\ fuToDelete = {}
    /\ fuBefore = [store |-> NoStore, quiet |-> TRUE]
    /\ fuRuns = <<>>
    /\ popLog = NoPopulate
    /\ ppc = "idle"
    /\ pIdx = 0
    /\ pResp = NoResp
    /\ pLog = <<>>
    /\ pnotes = <<>>
    /\ mnotes = <<>>

\* The worker script has been parsed; the store holds any set of generations.
CacheInit ==
    /\ cacheNames \in UNION {Orders(S) : S \in SUBSET Names}
    /\ entries = [n \in Names |-> IF \E i \in DOMAIN cacheNames : cacheNames[i] = n
                                  THEN OldEntries ELSE EmptyCache]
    /\ NoCacheActivity

\* A fresh origin: no cache at all.
CacheFresh ==
    /\ cacheNames = <<>>
    /\ entries = [n \in Names |-> EmptyCache]
    /\ NoCacheActivity

CacheNext ==
    \/ InstallOpen
    \/ InstallAddAll
    \/ ActivateStart
    \/ \E name \in Names : ActivateDelete(name)
    \/ ActivateDone
    \/ \E r \in Requests : FetchEvent(r)
    \/ Match
    \/ Network
    \/ \E p \in pendingPuts : PutLands(p)

(***************************************************************************)
(* Specification of the Deferred Action Queue.                             *)
(***************************************************************************)
DrainInit ==
    /\ store = [c \in Cats |-> <<>>]
    /\ nextId = [c \in Cats |-> 1]
    /\ pc = [c \in Cats |-> "idle"]
    /\ list = [c \in Cats |-> <<>>]
    /\ idx = [c \in Cats |-> 0]
    /\ successCount = [c \in Cats |-> 0]
    /\ snap = [c \in Cats |-> <<>>]
    /\ submitted = [c \in Cats |-> <<>>]
    /\ removeCalls = [c \in Cats |-> <<>>]
    /\ notes = [c \in Cats |-> <<>>]
    /\ caught = [c \in Cats |-> {}]
    /\ delivered = [c \in Cats |-> {}]
    /\ failed = [c \in Cats |-> {}]

\* The drains of different categories share no state: each reads and writes
\* only its own collection and its own locals.  A behaviour exercises one
\* category; the others stay as constructed.
Alone(c) == \A d \in Cats \ {c} : nextId[d] = 1 /\ pc[d] = "idle"

DrainNext ==
    \/ \E c \in Cats : Alone(c) /\ Enqueue(c)
    \/ \E c \in Cats : Alone(c) /\ StartDrain(c)
    \/ \E c \in Cats : Alone(c) /\ Submit(c)
    \/ Alone("upload") /\ RemoveUpload
    \/ Alone("action") /\ RemoveActionRead
    \/ Alone("action") /\ RemoveActionWrite
    \/ \E c \in Cats : Alone(c) /\ NotifyItem(c)
    \/ \E c \in Cats : Alone(c) /\ Complete(c)

(***************************************************************************)
(* The sync listener: switch (event.tag).                                  *)
(***************************************************************************)
\* The tags followed: the four the switch names, the tag of the periodic
\* sync, and one no listener knows.
SyncTags ==
    {"photo-upload-sync", "user-actions-sync", "magical-data-sync",
     "content-update-sync", "magical-content-update", "unregistered-sync"}

\* The function the switch hands to event.waitUntil, "none" in the default
\* branch.
SyncHandler(tag) ==
    CASE tag = "photo-upload-sync" -> "syncPhotoUploads"
      [] tag = "user-actions-sync" -> "syncUserActions"
      [] tag = "magical-data-sync" -> "syncMagicalData"
      [] tag = "content-update-sync" -> "syncContentUpdates"
      [] OTHER -> "none"

\* default: console.log('Unknown sync tag:', event.tag)
SyncUnknownTag(tag) ==
    /\ SyncHandler(tag) = "none"
    /\ unknownTag' = tag
    /\ UNCHANGED <<drainVars, cacheVars, maintVars, oldVars, aggVars, contentVars>>

(***************************************************************************)
(* Specifications.                                                         *)
(***************************************************************************)
Init == DrainInit /\ CacheInit /\ MaintInit /\ OldInit /\ AggInit /\ ContentInit

Next == DrainNext \/ CacheNext

\* The whole worker.
Spec == Init /\ [][Next]_vars

\* The Deferred Action Queue on its own, on a fresh origin.
DrainSpecInit == DrainInit /\ CacheFresh /\ MaintInit /\ OldInit /\ AggInit /\ ContentInit

DrainSpec == DrainSpecInit /\ [][DrainNext]_vars

\* The Resource Cache, Fetch Interceptor and Lifecycle Controller on their
\* own, over every set of generations the worker can find.
CacheSpec == Init /\ [][CacheNext]_vars

\* install and activate
LifeNext ==
    \/ InstallOpen
    \/ InstallAddAll
    \/ ActivateStart
    \/ \E name \in Names : ActivateDelete(name)
    \/ ActivateDone

\* forceUpdate
ForceNext ==
    \/ ForceStart
    \/ \E name \in Names : ForceDelete(name)
    \/ ForceAddAll
    \/ ForceNotify

\* periodicContentUpdate
PeriodicNext ==
    \/ PeriodicStart
    \/ PeriodicFetch
    \/ PeriodicPut
    \/ PeriodicNotify

\* A put of the previous worker that is in flight when the v4 script starts.
OldPutInFlight == [url |-> U_PHOTO, resp |-> Resp(200, "basic", "a")]

\* The v4 script starts while the previous worker may have a put in flight.
ForceSpecInit ==
    /\ DrainInit
    /\ CacheInit
    /\ MaintInit
    /\ OldIdle
    /\ oldPuts \in SUBSET {OldPutInFlight}
    /\ AggInit
    /\ ContentInit

ForceSpecNext ==
    \/ LifeNext
    \/ ForceNext
    \/ \E p \in oldPuts : OldPutLands(p)

\* The lifecycle followed by FORCE_UPDATE messages, with the previous
\* worker's last put landing at any time.
ForceSpec == ForceSpecInit /\ [][ForceSpecNext]_vars

\* The lifecycle followed by periodicsync events.
PeriodicSpec == Init /\ [][LifeNext \/ PeriodicNext]_vars

\* syncMagicalData of both script versions
AggNext ==
    \/ SelectWand
    \/ \E v \in Versions : SyncMagicalDataStart(v)
    \/ SyncMagicalDataSubmit
    \/ SyncMagicalDataNotify

\* The list drains and the aggregate-data drain.
QueueSpec == DrainSpecInit /\ [][DrainNext \/ AggNext]_vars

\* syncContentUpdates
ContentNext ==
    \/ ContentStart
    \/ ContentApply
    \/ ContentNotify

\* The drains that have no list in the Durable Store.
ContentSpec == DrainSpecInit /\ [][AggNext \/ ContentNext]_vars

\* The previous worker's fetch handler
OldNext ==
    \/ \E r \in OldRequests : OldFetchEvent(r)
    \/ OldMatch
    \/ OldNetwork
    \/ \E p \in oldPuts : OldPutLands(p)

\* The v4 fetch handler on the requests followed through the previous worker
OverlapFetchNext ==
    \/ \E r \in OldRequests : FetchEvent(r)
    \/ Match
    \/ Network
    \/ \E p \in pendingPuts : PutLands(p)

\* The cache writes the fetch handler can issue for these requests.
FetchPuts ==
    UNION {{[url |-> r.url, resp |-> response] :
               response \in {x \in NetResponses(r) : x.status = 200}} : r \in OldRequests}

\* A cache write that was issued is carried out: caches.open(...).then(...)
\* is a chain of promise reactions of the running worker.
PutFairness == \A p \in FetchPuts : WF_vars(PutLands(p))

\* The lifecycle and the fetch handler, with every issued cache write
\* carried out.
FairFetchSpec == Init /\ [][LifeNext \/ OverlapFetchNext]_vars /\ PutFairness

\* The takeover: the v4 lifecycle and fetch handler, with the previous
\* worker still serving and finishing its own fetch events.
OverlapSpec == Init /\ [][LifeNext \/ OldNext \/ OverlapFetchNext]_vars

\* The v4 worker after install and activate: it controls the pages and its
\* cache holds every URL of urlsToCache.
CacheActivated ==
    /\ cacheNames = <<CACHE_NAME>>
    /\ entries = [n \in Names |->
                    IF n = CACHE_NAME THEN AddAll(EmptyCache, urlsToCache, {}, "a")
                    ELSE EmptyCache]
    /\ lpc = "activated"
    /\ toDelete = {}
    /\ deleted = {}
    /\ populated = "ok"
    /\ skipWaiting = TRUE
    /\ claimed = TRUE
    /\ fpc = "idle"
    /\ req = NoRequest
    /\ fres = Pending
    /\ lookedUp = FALSE
    /\ fhit = NoResp
    /\ netCalled = FALSE
    /\ putIssued = FALSE
    /\ pendingPuts = {}

FrameInit == DrainInit /\ CacheActivated /\ MaintInit /\ OldInit /\ AggInit /\ ContentInit

\* The drain of category c runs while the other category is only enqueued,
\* and the periodic refresh has not run.
OneDrain(c) == ppc = "idle" /\ \A d \in Cats \ {c} : pc[d] = "idle"

\* The events of the activated worker.  The application enqueues in both
\* categories, selects a wand and registers syncs with tags the listener
\* does not know, at any time.  A behaviour has either the drain of one
\* category interleaved with the fetch handler, or the periodic refresh.
FrameNext ==
    \/ \E c \in Cats : nextId[c] <= MaxFrameEntries /\ Enqueue(c)
    \/ SelectWand
    \/ \E tag \in SyncTags : SyncUnknownTag(tag)
    \/ \E c \in Cats : OneDrain(c) /\ StartDrain(c)
    \/ \E c \in Cats : OneDrain(c) /\ Submit(c)
    \/ OneDrain("upload") /\ RemoveUpload
    \/ OneDrain("action") /\ RemoveActionRead
    \/ OneDrain("action") /\ RemoveActionWrite
    \/ \E c \in Cats : OneDrain(c) /\ NotifyItem(c)
    \/ \E c \in Cats : OneDrain(c) /\ Complete(c)
    \/ \E r \in OldRequests : ppc = "idle" /\ FetchEvent(r)
    \/ ppc = "idle" /\ Match
    \/ ppc = "idle" /\ Network
    \/ \E p \in pendingPuts : ppc = "idle" /\ PutLands(p)
    \/ (\A c \in Cats : pc[c] = "idle") /\ fpc = "idle" /\ pendingPuts = {}
           /\ PeriodicStart
    \/ PeriodicFetch
    \/ PeriodicPut
    \/ PeriodicNotify

FrameSpec == FrameInit /\ [][FrameNext]_vars

(***************************************************************************)
(* Fairness for the drains: sync events keep being delivered, every step   *)
(* that waits on the network or on the store completes, and the submit     *)
(* capability and the store accesses succeed again and again.              *)
(***************************************************************************)
StartOK(c) == Alone(c) /\ StartDrain(c) /\ list'[c] = store[c]

SubmitOK(c) == Alone(c) /\ Submit(c) /\ pc'[c] = "remove"

RemoveUploadOK ==
    /\ Alone("upload")
    /\ RemoveUpload
    /\ store'["upload"] = Without(store["upload"], list["upload"][idx["upload"]])

RemoveActionReadOK ==
    Alone("action") /\ RemoveActionRead /\ snap'["action"] = store["action"]

RemoveActionWriteOK ==
    /\ Alone("action")
    /\ RemoveActionWrite
    /\ store'["action"] = Without(snap["action"], list["action"][idx["action"]])

DrainFairness ==
    /\ \A c \in Cats : SF_vars(StartOK(c))
    /\ \A c \in Cats : SF_vars(SubmitOK(c))
    /\ SF_vars(RemoveUploadOK)
    /\ SF_vars(RemoveActionReadOK)
    /\ SF_vars(RemoveActionWriteOK)
    /\ \A c \in Cats : WF_vars(Alone(c) /\ NotifyItem(c))
    /\ \A c \in Cats : WF_vars(Alone(c) /\ Complete(c))

FairDrainSpec == DrainSpecInit /\ [][DrainNext]_vars /\ DrainFairness

(***************************************************************************)
(* Properties of the Deferred Action Queue.                                *)
(***************************************************************************)
\* Ids of the submit calls of the current drain, in call order.
SubmittedIds(c) == [i \in DOMAIN submitted[c] |-> submitted[c][i][1]]

\* Number of list entries whose iteration has begun with a submit call.
Iterated(c) == IF pc[c] = "submit" THEN idx[c] - 1 ELSE idx[c]

\* Submit calls of the current drain that succeeded.
OkSubmits(c) == SelectSeq(submitted[c], LAMBDA e : e[2])

\* Indexes of the submit calls of the current drain that failed.
FailedIdx(c) == {i \in DOMAIN submitted[c] : ~submitted[c][i][2]}

\* SYNC_COMPLETE notifications of the current drain.
CompleteNotes(c) == SelectSeq(notes[c], LAMBDA n : n.type = "SYNC_COMPLETE")

\* A finished drain over N >= 1 entries in which exactly one submit failed.
OneFailure(c) ==
    /\ pc[c] = "done"
    /\ Len(list[c]) >= 1
    /\ Len(submitted[c]) = Len(list[c])
    /\ Cardinality(FailedIdx(c)) = 1

\* The entry whose submit failed, in such a drain.
FailedEntry(c) == submitted[c][CHOOSE i \in FailedIdx(c) : TRUE][1]

\* C1: in drain(upload) and drain(action) a failure of one entry (its submit
\* or its per-item notification throws; a removal never throws) never aborts
\* the drain: submit is invoked for every listed entry, in list order, so that
\* while the loop runs the submit calls are exactly the entries iterated so
\* far and a finished drain has submitted its whole list.
C1_FailureNeverAbortsDrain ==
    \A c \in Cats :
        /\ pc[c] \in {"submit", "remove", "removeWrite", "notify", "complete"}
              => SubmittedIds(c) = SubSeq(list[c], 1, Iterated(c))
        /\ pc[c] = "done" => SubmittedIds(c) = list[c]

\* A finished drain over three entries: the first submit failed, the second
\* entry's notification threw, and the third entry was submitted all the same.
C1_Witness ==
    \E c \in Cats :
        /\ pc[c] = "done"
        /\ Len(list[c]) >= 3
        /\ Len(submitted[c]) = Len(list[c])
        /\ ~submitted[c][1][2]
        /\ submitted[c][2][2]
        /\ list[c][2] \in caught[c]

C3_RemovedOnlyAfterSuccess ==
    [][\A c \in Cats :
          \A id \in Range(store[c]) \ Range(store'[c]) : id \in delivered[c]]_vars

\* C4 as claimed: with drains triggered again and again and the submit
\* capability succeeding again and again, every entry that is in the store is
\* eventually submitted successfully and removed from the store.
C4_AtLeastOnce ==
    \A c \in Cats : \A id \in Ids :
        (id \in Range(store[c])) ~> (id \in delivered[c] /\ id \notin Range(store[c]))

\* C5 as claimed: an entry whose latest submit failed stays in the store, where
\* the next drain lists and submits it again.
C5_FailedEntryKept ==
    \A c \in Cats : failed[c] \subseteq Range(store[c])

\* C6: a drain that starts on an empty collection returns at once: no submit,
\* no removal, no notification, and the Durable Store is left as it was.
C6_EmptyDrainIsNoOp ==
    [][\A c \in Cats :
          (StartDrain(c) /\ store[c] = <<>>) =>
              /\ pc'[c] = "done"
              /\ submitted'[c] = <<>>
              /\ removeCalls'[c] = <<>>
              /\ notes'[c] = <<>>
              /\ store' = store]_vars

\* A drain ran and returned on a collection that earlier drains had emptied.
C6_Witness ==
    \E c \in Cats :
        /\ pc[c] = "done"
        /\ list[c] = <<>>
        /\ store[c] = <<>>
        /\ nextId[c] > 1
        /\ delivered[c] # {}

\* The per-item notifications a finished drain owes: one per successful
\* submit, in submit order.
ItemNotes(c) == [i \in DOMAIN OkSubmits(c) |-> ItemSuccess(c, OkSubmits(c)[i][1])]

\* C7: the notifications of a finished drain are one per-item success event
\* for each entry whose submit succeeded, in enqueue order, none for a failed
\* entry, followed by exactly one drain-complete event carrying the number of
\* successes if and only if that number is greater than 0; before the drain
\* has finished its loop no drain-complete event has been sent.
C7_NotificationSequence ==
    \A c \in Cats :
        /\ pc[c] = "done" =>
              notes[c] = ItemNotes(c) \o
                         (IF Len(OkSubmits(c)) > 0
                          THEN <<SyncComplete(Len(OkSubmits(c)))>> ELSE <<>>)
        /\ pc[c] = "done" =>
              \A i, j \in DOMAIN ItemNotes(c) :
                  i < j => ItemNotes(c)[i].data < ItemNotes(c)[j].data
        /\ pc[c] \notin {"idle", "done"} =>
              /\ CompleteNotes(c) = <<>>
              /\ Len(notes[c]) <= Len(ItemNotes(c))
              /\ notes[c] = SubSeq(ItemNotes(c), 1, Len(notes[c]))

\* A finished drain over three entries, one failed: two per-item events and
\* the drain-complete event carrying 2.
C7_Witness ==
    \E c \in Cats :
        /\ pc[c] = "done"
        /\ Len(list[c]) = 3
        /\ Cardinality(FailedIdx(c)) = 1
        /\ Len(notes[c]) = 3
        /\ notes[c][3] = SyncComplete(2)

(***************************************************************************)
(* Properties of the Fetch Interceptor and the Lifecycle Controller.       *)
(***************************************************************************)
\* A request the interceptor is meant to handle: GET over http or https.
Eligible(r) == r.method = "GET" /\ Scheme(r.url) \in {"http", "https"}

\* C8: a fetch event whose request is not GET or whose URL scheme is not
\* http(s) is not intercepted: the handler returns without respondWith, with
\* no cache lookup, no network call and no cache.put, and the caches are left
\* as they were (in the v2/v3 form of the test as well).
C8_IneligiblePassThrough ==
    [][\A r \in Requests :
          (FetchEvent(r) /\ ~Eligible(r)) =>
              /\ ShouldSkipV2(r)
              /\ fres' = NotIntercepted
              /\ fpc' = "done"
              /\ ~lookedUp'
              /\ ~netCalled'
              /\ ~putIssued'
              /\ UNCHANGED <<cacheNames, entries, pendingPuts>>]_vars

\* A GET for a chrome-extension URL was left to the browser.
C8_Witness ==
    /\ fpc = "done"
    /\ req.method = "GET"
    /\ Scheme(req.url) = "chrome-extension"
    /\ fres = NotIntercepted

\* C9: when the cache lookup of an intercepted request finds a response, the
\* handler answers with that response and ends: no network request, no
\* cache.put, the caches left as they were.
C9_CacheHitWins ==
    [][(fpc = "match" /\ fpc' # "match"
          /\ CachesMatch(cacheNames, entries, req.url) # NoResp) =>
              /\ fres' = Answer(CachesMatch(cacheNames, entries, req.url))
              /\ fpc' = "done"
              /\ ~netCalled'
              /\ ~putIssued'
              /\ UNCHANGED <<cacheNames, entries, pendingPuts>>]_vars

\* A navigation was answered from the cache without a network call.
C9_Witness ==
    /\ fpc = "done"
    /\ req.mode = "navigate"
    /\ lookedUp
    /\ fhit # NoResp
    /\ fres = Answer(fhit)
    /\ ~netCalled

\* C10: when activate has completed right after install, the store holds
\* exactly one generation, the new one, and nothing of any prior generation,
\* whether or not the install-time addAll succeeded.
C10_OneGenerationAfterActivate ==
    (lpc = "activated" /\ fpc = "idle") =>
        /\ cacheNames = <<CACHE_NAME>>
        /\ \A n \in OldNames : entries[n] = EmptyCache

\* Activation completed after a failed addAll, both older generations deleted.
C10_Witness ==
    /\ lpc = "activated"
    /\ fpc = "idle"
    /\ populated = "failed"
    /\ deleted = OldNames
    /\ cacheNames = <<CACHE_NAME>>

(***************************************************************************)
(* forceUpdate.                                                            *)
(***************************************************************************)
\* Runs i and i+1 of forceUpdate follow each other with nothing else writing
\* to the caches, and met the same network.
InSuccession(i) ==
    /\ fuRuns[i].quiet
    /\ fuRuns[i + 1].before = fuRuns[i].after
    /\ fuRuns[i + 1].unreachable = fuRuns[i].unreachable
    /\ fuRuns[i + 1].body = fuRuns[i].body

\* C11: forceUpdate is idempotent on the caches: when it runs twice in
\* succession against the same network responses, the second run leaves the
\* set of caches and the entries of every cache exactly as the first run
\* left them.
C11_ForceUpdateIdempotent ==
    \A i \in 1..(Len(fuRuns) - 1) :
        InSuccession(i) => fuRuns[i + 1].after = fuRuns[i].after

\* Two runs in succession with every URL fetched: the first one deleted an
\* older cache and overwrote the current cache's entries.
C11_Witness ==
    /\ Len(fuRuns) = 2
    /\ InSuccession(1)
    /\ fuRuns[1].unreachable = {}
    /\ fuRuns[1].before.names # fuRuns[1].after.names
    /\ fuRuns[1].before.entries[CACHE_NAME] # fuRuns[1].after.entries[CACHE_NAME]
    /\ upc = "done"

Storable(response) == IsOk(response) /\ response.type = "basic"

\* C13 as claimed: every response a step of the worker writes into the
\* current cache has a success status and the 'basic' type.
C13_OnlyBasicSuccessStored ==
    [][\A u \in Urls :
          LET old == CacheGet(entries[CACHE_NAME], u)
              new == CacheGet(entries'[CACHE_NAME], u)
          IN  (new # old /\ new # NoResp) => Storable(new)]_vars


(***************************************************************************)
(* C14: a drain never propagates a failure to its trigger: whatever the    *)
(* store, the submit capability and the notifier do, the promise the       *)
(* handler gives to waitUntil is never rejected.                           *)
(* The handler of part_000 logs the failure and throws it again.           *)
(***************************************************************************)
C14_DrainNeverRejects == aresult # "rejected"

(***************************************************************************)
(* C15: a failed read of the Durable Store is taken as an empty listing.   *)
(* A drain of uploads or actions whose read fails while entries are        *)
(* pending submits nothing, removes nothing, notifies nobody, leaves the   *)
(* store as it was and returns; an aggregate-data drain whose snapshot     *)
(* read fails submits nothing, notifies nobody and completes normally.     *)
(***************************************************************************)
C15_FailedReadIsEmptyListing ==
    [][/\ \A c \in Cats :
            (store[c] # <<>> /\ list'[c] = <<>> /\ StartDrain(c)) =>
                /\ pc'[c] = "done"
                /\ submitted'[c] = <<>>
                /\ removeCalls'[c] = <<>>
                /\ notes'[c] = <<>>
                /\ store' = store
                /\ delivered' = delivered
       /\ \A v \in Versions :
            (asnap' = Null /\ SyncMagicalDataStart(v)) =>
                /\ apc' = "done"
                /\ asubmits' = <<>>
                /\ anotes' = <<>>
                /\ aresult' = "fulfilled"
                /\ magic' = magic]_vars

\* Both cases in one state: a drain has returned with an empty listing while
\* its collection holds entries that nothing has delivered, and an
\* aggregate-data drain has returned after its snapshot read failed although
\* a wand was selected.
C15_Witness ==
    /\ \E c \in Cats :
          /\ pc[c] = "done"
          /\ list[c] = <<>>
          /\ Len(store[c]) = MaxEntries
          /\ submitted[c] = <<>>
          /\ notes[c] = <<>>
    /\ atag = "magical-data-sync"
    /\ apc = "done"
    /\ asnap = Null
    /\ magic = "phoenix"
    /\ asubmits = <<>>
    /\ anotes = <<>>

(***************************************************************************)
(* C16: the swap of generations is atomic for readers: no cache lookup of  *)
(* a fetch handler, of this worker or of the one it replaces, runs while   *)
(* some of the superseded generations have been deleted and others are     *)
(* still to be deleted.                                                    *)
(* activate issues one caches.delete per superseded cache and they take    *)
(* effect one by one; a lookup the previous worker began before the        *)
(* activation runs between two of them.                                    *)
(***************************************************************************)
C16_SwapAtomicForReaders ==
    [][(OldMatch \/ Match) => ~(toDelete # {} /\ deleted # {})]_vars

(***************************************************************************)
(* C17: the lookup of the fetch handler consults the current generation    *)
(* only: every cache hit is the entry the worker's own cache holds for the *)
(* requested URL.                                                          *)
(* caches.match(request) searches every cache of the origin in creation    *)
(* order, so an entry of another generation is returned as a hit.          *)
(***************************************************************************)
C17_LookupInCurrentGenerationOnly ==
    [][Match =>
          (fhit' # NoResp => fhit' = CacheGet(entries[CACHE_NAME], req.url))]_vars

(***************************************************************************)
(* C18: a navigation request that missed the cache is settled by the       *)
(* network step with a response (the network's, or on a network failure    *)
(* the cached fallback document), or, when the fallback document is not    *)
(* cached, with the failure itself; it is never settled with an empty      *)
(* result.                                                                 *)
(* The catch returns caches.match('./index.html'), which resolves with     *)
(* undefined when the document is in no cache.                             *)
(***************************************************************************)
C18_NavigationFallbackOrFailure ==
    [][(Network /\ req.mode = "navigate") =>
          \/ fres'.kind = "response"
          \/ /\ fres' = Rejected
             /\ CachesMatch(cacheNames, entries, U_INDEX) = NoResp]_vars

(***************************************************************************)
(* C19: when a request that is not a navigation missed the cache and the   *)
(* network step did not produce a response of the network, the handler    *)
(* answers with the empty 204 response exactly when the request's          *)
(* destination is 'image' and rejects otherwise, and in both cases no      *)
(* cache write is issued and the caches are left as they were.             *)
(***************************************************************************)
C19_NoContentIffImage ==
    [][(/\ Network
        /\ req.mode # "navigate"
        /\ fres' \notin {Answer(response) : response \in NetResponses(req)}) =>
          /\ (req.destination = "image" <=> fres' = Answer(NoContent))
          /\ (req.destination # "image" => fres' = Rejected)
          /\ ~putIssued'
          /\ pendingPuts' = pendingPuts
          /\ entries' = entries
          /\ cacheNames' = cacheNames]_vars

\* An image request missed the cache, the network failed, and the handler
\* answered 204 without issuing a cache write.
C19_Witness ==
    /\ fpc = "done"
    /\ req.mode # "navigate"
    /\ req.destination = "image"
    /\ lookedUp
    /\ fhit = NoResp
    /\ netCalled
    /\ fres = Answer(NoContent)
    /\ ~putIssued

(***************************************************************************)
(* C20: the periodic refresh isolates failures per URL.  Each iteration    *)
(* of the loop handles the next critical URL whatever happened to the ones *)
(* before it; an iteration that stored its response had an ok response and *)
(* overwrote exactly that URL's entry of the current cache; an iteration   *)
(* whose fetch or store failed, or whose response was not ok, left every   *)
(* entry as it was; and when the loop is over every critical URL has been  *)
(* attempted, in order.                                                    *)
(***************************************************************************)
C20_RefreshIsolatesFailures ==
    [][/\ \A i \in DOMAIN pLog' \ DOMAIN pLog :
            LET r == pLog'[i] IN
            /\ r.url = criticalUrls[i]
            /\ IF r.outcome = "stored"
               THEN /\ IsOk(r.resp)
                    /\ entries' = [entries EXCEPT ![CACHE_NAME] =
                                      CachePut(entries[CACHE_NAME], r.url, r.resp)]
               ELSE entries' = entries
       /\ ppc' \in {"notify", "done"} =>
            /\ Len(pLog') = Len(criticalUrls)
            /\ \A i \in DOMAIN pLog' : pLog'[i].url = criticalUrls[i]]_vars

\* A run is over in which the fetch of the first URL failed, the store of the
\* second failed, and the third was fetched and its entry overwritten.
C20_Witness ==
    /\ ppc = "done"
    /\ Len(pLog) = 3
    /\ pLog[1].outcome = "fetchFailed"
    /\ pLog[2].outcome = "putFailed"
    /\ pLog[3].outcome = "stored"
    /\ CacheGet(entries[CACHE_NAME], U_MANIFEST) = pLog[3].resp
    /\ CacheGet(entries[CACHE_NAME], U_INDEX) # pLog[2].resp
    /\ pnotes = <<ContentUpdated>>

C22_AggregateDrainReadsOnly ==
    [][/\ \A v \in Versions :
            SyncMagicalDataStart(v) => asnap' \in {Null, Snapshot(magic)}
       /\ ((\E v \in Versions : SyncMagicalDataStart(v))
              \/ SyncMagicalDataSubmit \/ SyncMagicalDataNotify) =>
            /\ magic' = magic
            /\ store' = store
       /\ (atag' = "magical-data-sync" /\ apc' = "done") =>
            /\ asubmits' \in {<<>>, <<asnap'>>}
            /\ anotes' = IF asubmits' = <<>> THEN <<>>
                         ELSE <<MagicalDataSuccess(asnap')>>]_vars

\* A drain has ended whose snapshot holds the wand selected before it
\* started, was accepted by the submit capability and was notified.
C22_Witness ==
    /\ atag = "magical-data-sync"
    /\ apc = "done"
    /\ magic = "phoenix"
    /\ asnap = Snapshot("phoenix")
    /\ asubmits = <<asnap>>
    /\ anotes = <<MagicalDataSuccess(asnap)>>
    /\ \E c \in Cats : store[c] # <<>>

(***************************************************************************)
(* C23: an entry that a drain counted as a success is absent from the      *)
(* Durable Store when that drain has ended, so the count of the completion *)
(* notification is the number of entries the drain deleted.                *)
(* removePendingUpload and removePendingAction log a failed delete and     *)
(* resolve; the drain counts the entry all the same.                       *)
(***************************************************************************)
C23_CountedSuccessIsDeleted ==
    \A c \in Cats :
        pc[c] = "done" =>
            /\ successCount[c] = Len(removeCalls[c])
            /\ Range(removeCalls[c]) \cap Range(store[c]) = {}

(***************************************************************************)
(* C24: an entry the application adds while a drain of its category is     *)
(* suspended is never lost: the only entries that leave a collection are   *)
(* entries the running drain listed at its start.                          *)
(* removePendingAction writes back a filtered copy of the collection it    *)
(* read before its await; what was enqueued after that read is gone.       *)
(***************************************************************************)
C24_EnqueuedDuringDrainKept ==
    [][\A c \in Cats :
          \A id \in Range(store[c]) \ Range(store'[c]) : id \in Range(list[c])]_vars

(***************************************************************************)
(* C25: every drain terminates.  A drain that has started ends, whatever   *)
(* the submits do, and when it has ended it has invoked submit once for    *)
(* each entry of the list it read at its start, in the order of the list,  *)
(* and for no other entry.                                                 *)
(***************************************************************************)
C25_DrainTerminates ==
    \A c \in Cats :
        /\ [](pc[c] = "done" => SubmittedIds(c) = list[c])
        /\ (pc[c] \notin {"idle", "done"}) ~> (pc[c] = "done")

\* A drain over two entries has ended after one submit failed and one
\* succeeded.
C25_Witness ==
    \E c \in Cats :
        /\ pc[c] = "done"
        /\ Len(list[c]) = 2
        /\ SubmittedIds(c) = list[c]
        /\ submitted[c][1][2]
        /\ ~submitted[c][2][2]

C27_InstallNeverFails ==
    /\ lpc \in {"parsed", "installing"} => populated = "none" /\ ~skipWaiting
    /\ populated # "none" =>
          /\ lpc \in {"installed", "activating", "activated"}
          /\ populated \in {"ok", "failed"}
          /\ skipWaiting <=> populated = "ok"
          /\ popLog.caller = "install" => (popLog.resolved <=> populated = "ok")

\* The populate failed, install completed without asking for takeover, and
\* the worker was activated later.
C27_Witness ==
    /\ populated = "failed"
    /\ ~skipWaiting
    /\ lpc = "activated"
    /\ entries[CACHE_NAME] = EmptyCache

(***************************************************************************)
(* C28: the content-update drain isolates failures per entry: an ended     *)
(* drain has called applyContentUpdate for every update of its list, in    *)
(* order, whichever of the calls failed.                                   *)
(* The loop of syncContentUpdates has no try of its own: the first failing *)
(* update ends it.                                                         *)
(***************************************************************************)
C28_ContentFailureIsolated ==
    cpc = "done" => [i \in DOMAIN cattempts |-> cattempts[i][1]] = contentUpdates

(***************************************************************************)
(* C29: an ended content-update drain over an empty list has emitted no    *)
(* notification, and one over a non-empty list has emitted its success     *)
(* notification only if some update was applied.                           *)
(* notifyClients is called after the loop whatever the list held.          *)
(***************************************************************************)
C29_ContentEmptyListSilent ==
    cpc = "done" =>
        /\ contentUpdates = <<>> => cnotes = <<>>
        /\ cnotes # <<>> => \E i \in DOMAIN cattempts : cattempts[i][2]

(***************************************************************************)
(* C30: once activate has completed, the cache store holds no generation   *)
(* other than the current one, in every later state.                       *)
(* A cache write that the previous worker issued before the activation     *)
(* opens its own generation by name when it lands, which creates that      *)
(* generation again after activate deleted it.                             *)
(***************************************************************************)
C30_OnlyCurrentGenerationAfterActivate ==
    lpc = "activated" => NameSet(cacheNames) \subseteq {CACHE_NAME}


(***************************************************************************)
(* forceUpdate: deletion, re-populate and notification.                    *)
(***************************************************************************)
\* The non-current caches that a run of forceUpdate found.
NonCurrentBefore(run) ==
    {run.before.names[i] : i \in DOMAIN run.before.names} \ {CACHE_NAME}

\* C31: forceUpdate deletes every non-current cache before it re-populates
\* the current one: when addAll has run, no non-current cache that the run
\* found is left (as long as no put of the previous worker's fetch handler
\* was in flight to re-create one), whether addAll resolved or not.  One
\* FORCE_UPDATE_COMPLETE notification is sent for each run whose addAll
\* resolved and none for a run whose addAll rejected; a rejected run ends
\* like any other, in the catch block.
C31_ForceUpdateNotifiesIffPopulated ==
    /\ \A i \in DOMAIN fuRuns :
          fuRuns[i].quiet =>
              \A n \in NonCurrentBefore(fuRuns[i]) :
                  \A k \in DOMAIN fuRuns[i].after.names :
                      fuRuns[i].after.names[k] # n
    /\ Len(mnotes) + (IF upc = "notify" THEN 1 ELSE 0)
          = Cardinality({i \in DOMAIN fuRuns : fuRuns[i].unreachable = {}})
    /\ \A k \in DOMAIN mnotes : mnotes[k] = ForceUpdateComplete
    /\ upc = "notify" => fuRuns # <<>> /\ fuRuns[Len(fuRuns)].unreachable = {}

\* A run found an older cache and could not fetch every URL: it has ended,
\* the older cache is gone and no notification was sent.
C31_Witness ==
    /\ upc = "done"
    /\ Len(fuRuns) = 1
    /\ fuRuns[1].unreachable # {}
    /\ fuRuns[1].quiet
    /\ NonCurrentBefore(fuRuns[1]) # {}
    /\ \A n \in NonCurrentBefore(fuRuns[1]) :
          \A k \in DOMAIN cacheNames : cacheNames[k] # n
    /\ mnotes = <<>>


(***************************************************************************)
(* install and the older caches.                                           *)
(***************************************************************************)
\* One cache as the store holds it: whether it exists, and its entries.
Generation(names, ents, n) ==
    IF \E i \in DOMAIN names : names[i] = n
    THEN [present |-> TRUE, entries |-> ents[n]]
    ELSE [present |-> FALSE, entries |-> EmptyCache]

\* No activate handler has started and no forceUpdate has run.
BeforeEviction(l, u, runs) ==
    l \in {"parsed", "installing", "installed"} /\ u = "idle" /\ runs = <<>>

\* C32: the install handler changes the cache named CACHE_NAME only: a step
\* of it leaves the existence and the entries of every other cache as they
\* were, and every URL that caches.match answered before the step is
\* answered after it.  Until activate starts or forceUpdate runs, no entry of
\* another cache is lost by any step.  A cache other than CACHE_NAME leaves
\* the store only in a caches.delete of activate or of forceUpdate.
C32_InstallLeavesOtherGenerations ==
    [][ /\ (lpc \in {"parsed", "installing"} /\ lpc' # lpc) =>
              /\ \A n \in Names \ {CACHE_NAME} :
                    Generation(cacheNames', entries', n)
                        = Generation(cacheNames, entries, n)
              /\ \A u \in UNION {DOMAIN entries[n] : n \in Names} :
                    CachesMatch(cacheNames, entries, u) # NoResp
                        => CachesMatch(cacheNames', entries', u) # NoResp
        /\ BeforeEviction(lpc', upc', fuRuns') =>
              \A n \in Names \ {CACHE_NAME} :
                  Generation(cacheNames, entries, n).present =>
                      /\ Generation(cacheNames', entries', n).present
                      /\ DOMAIN entries[n] \subseteq DOMAIN entries'[n]
        /\ \A n \in Names \ {CACHE_NAME} :
              (/\ Generation(cacheNames, entries, n).present
               /\ ~Generation(cacheNames', entries', n).present)
                  => \/ lpc = "activating" /\ n \in toDelete
                     \/ upc = "delete" /\ n \in fuToDelete
      ]_vars

\* Install has populated the new cache while the previous version's cache
\* exists with all its entries; no activate and no forceUpdate has run.
C32_Witness ==
    /\ BeforeEviction(lpc, upc, fuRuns)
    /\ lpc = "installed"
    /\ populated = "ok"
    /\ popLog.caller = "install"
    /\ popLog.before # popLog.after
    /\ Generation(cacheNames, entries, PREV_CACHE_NAME)
          = [present |-> TRUE, entries |-> OldEntries]


(***************************************************************************)
(* activate after a failed populate.                                       *)
(***************************************************************************)
\* C33: activate evicts the older caches only when the cache named
\* CACHE_NAME holds every URL of urlsToCache: once activate has deleted the
\* previous version's cache, which held a response for every such URL, the
\* current cache holds a response for each of them.
C33_EvictOnlyWhenPopulated ==
    (lpc \in {"activating", "activated"} /\ PREV_CACHE_NAME \in deleted) =>
        \A u \in urlsToCache : CacheGet(entries[CACHE_NAME], u) # NoResp


(***************************************************************************)
(* Frame separation between the drains, the caches and the sync listener.  *)
(***************************************************************************)
\* The drain of category c takes a step.
DrainStep(c) ==
    <<pc[c], list[c], idx[c], successCount[c], snap[c], submitted[c],
      removeCalls[c], notes[c], caught[c], delivered[c], failed[c]>>'
        # <<pc[c], list[c], idx[c], successCount[c], snap[c], submitted[c],
            removeCalls[c], notes[c], caught[c], delivered[c], failed[c]>>

\* C34: the components keep to their own state under every interleaving.
\* A step of the drain of one category leaves the caches, the other
\* category's list and the wand item as they were; a step of the fetch
\* handler or of the periodic refresh leaves the Durable Store as it was; a
\* sync event whose tag the listener does not know changes no cache, no
\* list, no handler's position, and hands nothing to notifyClients.
C34_FrameSeparation ==
    [][ /\ \A c \in Cats :
              DrainStep(c) =>
                  /\ <<cacheNames, entries>>' = <<cacheNames, entries>>
                  /\ magic' = magic
                  /\ \A d \in Cats \ {c} : store'[d] = store[d]
        /\ (\/ fetchVars' # fetchVars
            \/ <<ppc, pIdx, pResp, pLog, pnotes>>' # <<ppc, pIdx, pResp, pLog, pnotes>>)
              => <<store, magic>>' = <<store, magic>>
        /\ unknownTag' # unknownTag =>
              /\ <<store, magic>>' = <<store, magic>>
              /\ <<cacheNames, entries>>' = <<cacheNames, entries>>
              /\ <<notes, anotes, cnotes, pnotes, mnotes>>'
                    = <<notes, anotes, cnotes, pnotes, mnotes>>
              /\ <<drainVars, cacheVars, maintVars, oldVars, aggVars, contentVars>>'
                    = <<drainVars, cacheVars, maintVars, oldVars, aggVars, contentVars>>
      ]_vars

\* The upload drain has delivered an entry and completed while an action
\* was queued and a wand selected; the fetch handler has stored a response
\* meanwhile, and a sync event with an unknown tag has come in.
C34_Witness ==
    /\ pc["upload"] = "done"
    /\ successCount["upload"] > 0
    /\ store["upload"] = <<>>
    /\ store["action"] # <<>>
    /\ magic # "null"
    /\ CacheGet(entries[CACHE_NAME], U_PHOTO) # NoResp
    /\ unknownTag # "none"

=============================================================================
